---- MODULE Spec2Model ----
(***************************************************************************)
(* Offline-first synchronization subsystem of the desktop application:     *)
(* the SyncEngine (sync/engine.rs), the sync providers                      *)
(* (sync/providers/*.rs) and the Repository they read and write             *)
(* (db/repository.rs); and the SidecarManager (sidecar/mod.rs).            *)
(*                                                                          *)
(* Spec       the engine: concurrent start_sync calls on one engine, each  *)
(*            provider call a start step and a return step, the provider's *)
(*            store effects applied when the call returns.                  *)
(* FairSpec   Spec with the fairness of the async runtime: a spawned       *)
(*            start_sync future is polled until it completes.               *)
(* StoreSpec  the Project provider step by step (every lock acquisition of *)
(*            the Repository is one step) interleaved with the UI's local  *)
(*            mutations of the projects table.                              *)
(* AccountSpec   AccountProvider::pull step by step and the account         *)
(*               commands of the UI.                                        *)
(* PullTwiceSpec one answer of the remote applied twice to the tables.      *)
(* RegisterSpec  register_provider calls on a new engine.                   *)
(* LockSpec      start_sync, get_status and db_* commands as sequences of   *)
(*               lock, unlock, store and network steps over the mutexes.    *)
(* RetrySpec     passes that follow a rejected push, with weak fairness of  *)
(*               the pass steps.                                            *)
(* MergeSpec     sync_user and sync_project applied once to every kind of   *)
(*               row and incoming record.                                   *)
(* RemoteSpec    the push of the Project provider against a remote that     *)
(*               keeps records per id.                                      *)
(* AccountSyncSpec  AccountSpec with the push of the Account provider.      *)
(* SyncSpec      passes of the Project provider and pushes of the Account   *)
(*               provider with db_create_account, whose placeholders are    *)
(*               the only projects made locally.                            *)
(* DefaultSpec   StoreSpec with set_default_project.                        *)
(* SidecarSpec   spawn, call, shutdown and is_running of one manager, and   *)
(*               children that end on their own.                            *)
(***************************************************************************)
EXTENDS Integers, Sequences, FiniteSets, TLC

VARIABLES
    status,         \* SyncEngine.status: SyncStatus behind its Mutex
    pc,             \* per start_sync call: where the future stands
    idx,            \* per call: index of the provider of the for loop
    final_result,   \* per call: the local final_result
    ret,            \* per call: the value start_sync returned
    firstErr,       \* per call (history): the first err_msg of the pass
    log,            \* history: provider calls of the last pass started
    now,            \* the clock chrono::Utc::now() reads
    users,          \* table users
    projects,       \* table projects
    ppc,            \* StoreSpec: where the Project provider stands
    pullq,          \* StoreSpec: resp.data.items still to apply
    pushq,          \* StoreSpec: the pending projects still to push
    pushed,         \* StoreSpec (history): per project, what this push did
    base,           \* StoreSpec (history): per project, the local_version
                    \* its last pull left or its last confirmed push read
    presult,        \* StoreSpec, AccountSpec: what the provider's last
                    \* pull/push returned
    confirmed,      \* StoreSpec (history): per project, the server_version
                    \* the remote returned in this push (0: none)
    clean,          \* StoreSpec (history): per project, whether a push marked
                    \* it synced and no local mutation followed
    accounts,       \* table platform_accounts
    apc,            \* AccountSpec: where the Account provider stands
    aq,             \* AccountSpec: resp.data still to apply, or the pending
                    \* accounts still to push
    updated_at,     \* PullTwiceSpec: the column updated_at of the three tables
    tpc,            \* PullTwiceSpec: how often the payload has been applied
    payload,        \* PullTwiceSpec: the answer of the remote that is applied
                    \* SyncSpec: the answer to the POST of the account push
    first,          \* PullTwiceSpec: the tables after the first application;
                    \* MergeSpec: the tables before the upsert
    registry,       \* SyncEngine.providers, in registration order
    locks,          \* LockSpec: for every mutex the thread that holds it
    thr,            \* LockSpec: for every thread its operation and position
    snapshot,       \* LockSpec: what the last get_status returned
    remote,         \* RemoteSpec: how many records the remote has per project id
    manager,        \* SidecarSpec: the fields of the SidecarManager
    children,       \* SidecarSpec: the child processes launched so far
    sret            \* SidecarSpec: the last method called and what it returned

engineVars == <<status, pc, idx, final_result, ret, firstErr, log, now>>
storeVars == <<users, projects>>
providerVars == <<ppc, pullq, pushq, pushed, base, presult>>
histVars == <<confirmed, clean>>
accountVars == <<accounts, apc, aq>>
twiceVars == <<updated_at, tpc, payload, first>>
lockVars == <<locks, thr, snapshot>>
sidecarVars == <<manager, children, sret>>
vars == <<status, pc, idx, final_result, ret, firstErr, log, now,
          users, projects, ppc, pullq, pushq, pushed, base, presult,
          confirmed, clean, accounts, apc, aq, updated_at, tpc, payload, first,
          registry, locks, thr, snapshot, remote, manager, children, sret>>

----------------------------------------------------------------------------
(* Bounds of the model *)

\* the clock stops at MaxTime
MaxTime == 1
\* local mutations stop once a row's local_version reaches MaxVersion
MaxVersion == 3

\* the concurrent start_sync futures the start_sync command has spawned
Callers == {"c1", "c2"}
\* the user the passes run for
UserId == "u1"
ProjectIds == {"p1", "p2"}
\* primary keys of platform_accounts (gen_uuid, or the id the remote sends)
AccountIds == {"k1", "k2"}
\* the server_version values the remote answers with
RemoteVersions == {1, 2}

----------------------------------------------------------------------------
(* Values *)

NULL == "NULL"
NoRow == [absent |-> TRUE]

\* Option<T>
None == <<"None">>
Some(v) == <<"Some", v>>
\* Result<(), String>
Ok == <<"Ok">>
Err(msg) == <<"Err", msg>>
is_ok(r) == r = Ok

\* the child processes a run launches, and the requests it sends
MaxChildren == 2
MaxRequests == 3
Pids == 1..MaxChildren

\* SidecarManager::new(), with no child launched
SidecarManagerNew ==
    /\ manager = [process |-> None, stdin |-> None, stdout |-> None,
                  request_id |-> 0]
    /\ children = [p \in Pids |-> "none"]
    /\ sret = [op |-> "new", result |-> Ok]
\* Result::err(): Option<String>
err(r) == IF is_ok(r) THEN None ELSE Some(r[2])

\* (mutant) the Project provider registered before the User provider
ProvidersProjectFirst == <<"Project", "User", "PlatformAccount">>

\* the providers in registration order
Providers == <<"User", "Project", "PlatformAccount">>
NumProviders == Len(Providers)

\* the mutexes: SyncEngine.status, Repository.conn and the DbState of the
\* commands
Locks == {"status", "conn", "db_state"}
\* two start_sync tasks, a get_sync_status command and a db_* command
Threads == {"pass", "pass2", "reader", "ui"}
\* the holder of a mutex that is not locked
Free == "free"
\* a thread that runs no operation
IdleThread == [op |-> "idle", at |-> 1]

\* format!("Pull failed for {}: {}", provider.name(), e)
PullFailed(name) == <<"Pull failed for", name>>
\* format!("Push failed for {}: {}", provider.name(), e)
PushFailed(name) == <<"Push failed for", name>>

SeqToSet(s) == {s[i] : i \in 1..Len(s)}

----------------------------------------------------------------------------
(* The Repository: tables as functions from the primary key to a row.      *)
(* The bookkeeping timestamp created_at is not modelled; updated_at is    *)
(* kept apart from the rows, in the variable updated_at, and followed in   *)
(* PullTwiceSpec only; synced_at is a field of the project rows.           *)

UserIds == {"current-user", UserId}

\* (mutant) the conflict clause is x=excluded.x
CoalesceOverwrite(incoming, existing) == incoming

\* COALESCE(excluded.x, x)
Coalesce(incoming, existing) == IF incoming # NULL THEN incoming ELSE existing

\* INSERT OR IGNORE INTO users ... VALUES ('current-user', 'local@localhost', ...)
DefaultUserRow ==
    [email |-> "local@localhost", username |-> "local",
     nickname |-> "local-user", avatar |-> NULL]

\* the row ensure_user_exists inserts
PlaceholderUserRow ==
    [email |-> "waiting_sync@local", username |-> "pending_id",
     nickname |-> "syncing", avatar |-> NULL]

ensure_user_exists(us, user_id) ==
    IF us[user_id] = NoRow
    THEN [us EXCEPT ![user_id] = PlaceholderUserRow]
    ELSE us

sync_user(us, user_id, email, username, nickname, avatar) ==
    IF us[user_id] = NoRow
    THEN [us EXCEPT ![user_id] =
            [email |-> email, username |-> username,
             nickname |-> nickname, avatar |-> avatar]]
    ELSE [us EXCEPT ![user_id] =
            [email |-> Coalesce(email, @.email),
             username |-> Coalesce(username, @.username),
             nickname |-> Coalesce(nickname, @.nickname),
             avatar |-> Coalesce(avatar, @.avatar)]]

\* the column defaults of table projects for the columns an INSERT leaves out
DefaultLocalVersion == 1
DefaultServerVersion == 0

NewProjectRow(user_id, name, description, sync_status) ==
    [user_id |-> user_id, name |-> name, description |-> description,
     sync_status |-> sync_status,
     local_version |-> DefaultLocalVersion,
     server_version |-> DefaultServerVersion,
     is_default |-> FALSE, is_deleted |-> FALSE, synced_at |-> None]

\* (mutant) the conflict clause leaves the row to be pushed again
SyncProjectConflictPending(row, name, description) ==
    [row EXCEPT !.name = name,
                !.description = Coalesce(description, @),
                !.sync_status = "pending"]

\* (mutant) the conflict clause counts the pull as a local edit
SyncProjectConflictBump(row, name, description) ==
    [row EXCEPT !.name = name,
                !.description = Coalesce(description, @),
                !.sync_status = "synced",
                !.local_version = @ + 1]

\* (mutant) a pull over a pending row flags the row
SyncProjectConflictFlag(row, name, description) ==
    [row EXCEPT !.name = name,
                !.description = Coalesce(description, @),
                !.sync_status = IF @ = "pending" THEN "conflict" ELSE "synced"]

\* ON CONFLICT(id) DO UPDATE SET of sync_project
SyncProjectConflict(row, name, description) ==
    [row EXCEPT !.name = name,
                !.description = Coalesce(description, @),
                !.sync_status = "synced"]

sync_project(ps, project_id, user_id, name, description) ==
    IF ps[project_id] = NoRow
    THEN [ps EXCEPT ![project_id] =
            NewProjectRow(user_id, name, description, "synced")]
    ELSE [ps EXCEPT ![project_id] = SyncProjectConflict(@, name, description)]

\* the data of an update_project call: NULL leaves the column as it is
UpdateProjectRow(row, name, description) ==
    [row EXCEPT !.name = Coalesce(name, @),
                !.description = Coalesce(description, @),
                !.sync_status = "pending",
                !.local_version = @ + 1]

update_project(ps, id, name, description) ==
    IF ps[id] = NoRow THEN ps
    ELSE [ps EXCEPT ![id] = UpdateProjectRow(@, name, description)]

delete_project(ps, id) ==
    IF ps[id] = NoRow THEN ps
    ELSE [ps EXCEPT ![id] =
            [@ EXCEPT !.is_deleted = TRUE,
                      !.sync_status = "pending",
                      !.local_version = @ + 1]]

\* (mutant) the UPDATE sets the flag of the chosen row and leaves the others
SetDefaultProjectKeep(ps, user_id, project_id) ==
    [p \in DOMAIN ps |->
        IF ps[p] # NoRow /\ ps[p].user_id = user_id /\ ~ps[p].is_deleted
        THEN [ps[p] EXCEPT !.is_default = (@ \/ p = project_id),
                           !.sync_status = "pending",
                           !.local_version = @ + 1]
        ELSE ps[p]]

\* UPDATE projects SET is_default = CASE ... WHERE user_id = ?3 AND is_deleted = 0
set_default_project(ps, user_id, project_id) ==
    [p \in DOMAIN ps |->
        IF ps[p] # NoRow /\ ps[p].user_id = user_id /\ ~ps[p].is_deleted
        THEN [ps[p] EXCEPT !.is_default = (p = project_id),
                           !.sync_status = "pending",
                           !.local_version = @ + 1]
        ELSE ps[p]]

\* create_project with gen_uuid() = id
\* (mutant) the INSERT of create_project writes sync_status 'synced'
CreateProjectSynced(ps, id, user_id, name, description) ==
    [ps EXCEPT ![id] = NewProjectRow(user_id, name, description, "synced")]

create_project(ps, id, user_id, name, description) ==
    [ps EXCEPT ![id] = NewProjectRow(user_id, name, description, "pending")]

\* Repository::list_pending_projects: the ids of the user's pending projects
list_pending_projects(ps, user_id) ==
    {p \in DOMAIN ps :
        ps[p] # NoRow /\ ps[p].user_id = user_id /\ ps[p].sync_status = "pending"}

\* Repository::mark_project_synced(id) at time t
mark_project_synced(ps, id, t) ==
    IF ps[id] = NoRow THEN ps
    ELSE [ps EXCEPT ![id] = [@ EXCEPT !.sync_status = "synced", !.synced_at = Some(t)]]


(* Foreign keys and the table platform_accounts *)

\* (mutant) the connection is opened without PRAGMA foreign_keys=ON
ForeignKeysOff == FALSE

\* conn.execute_batch("PRAGMA journal_mode=WAL; PRAGMA foreign_keys=ON;")
ForeignKeysOn == TRUE

\* the one platform and the one external account id of the model
Platform == "xhs"
ExternalId == "a1"

\* (mutant) the placeholder project is not inserted
EnsureProjectExistsNoop(ps, project_id, user_id) == ps

\* the row ensure_project_exists inserts
PlaceholderProjectRow(user_id) ==
    NewProjectRow(user_id, "default-project", NULL, "pending")

\* (mutant) INSERT OR REPLACE: the placeholder replaces the row of the id
EnsureProjectExistsReplace(ps, project_id, user_id) ==
    [ps EXCEPT ![project_id] = PlaceholderProjectRow(user_id)]

\* INSERT OR IGNORE INTO projects ..., after ensure_user_exists(user_id)
ensure_project_exists(ps, project_id, user_id) ==
    IF ps[project_id] = NoRow
    THEN [ps EXCEPT ![project_id] = PlaceholderProjectRow(user_id)]
    ELSE ps

\* the columns of the unique index of platform_accounts
Triple(row) == <<row.project_id, row.platform, row.account_id>>

\* (mutant) the INSERT has no conflict target: every call adds a row
ConflictRowsNone(as, project_id, platform, account_id) == {}

\* ON CONFLICT(project_id, platform, account_id): the rows the INSERT
\* collides with
ConflictRows(as, project_id, platform, account_id) ==
    {k \in DOMAIN as :
        as[k] # NoRow /\ Triple(as[k]) = <<project_id, platform, account_id>>}

\* the parents a platform_accounts row refers to exist
ParentsExist(us, ps, user_id, project_id) ==
    us[user_id] # NoRow /\ ps[project_id] # NoRow

NewAccountRow(user_id, project_id, platform, account_id, account_name, sync_status, server_version) ==
    [user_id |-> user_id, project_id |-> project_id, platform |-> platform,
     account_id |-> account_id, account_name |-> account_name,
     sync_status |-> sync_status,
     local_version |-> DefaultLocalVersion,
     server_version |-> server_version,
     is_deleted |-> FALSE]

\* DO UPDATE SET account_name = COALESCE(excluded.account_name, account_name),
\* sync_status = 'pending' of create_platform_account
CreateAccountConflict(row, account_name) ==
    [row EXCEPT !.account_name = Coalesce(account_name, @),
                !.sync_status = "pending"]

\* create_platform_account with gen_uuid() = id; the table is unchanged when
\* the INSERT fails on a foreign key
create_platform_account(as, us, ps, id, user_id, project_id, platform, account_id, account_name) ==
    LET hit == ConflictRows(as, project_id, platform, account_id)
    IN  IF hit # {}
        THEN [k \in DOMAIN as |->
                IF k \in hit THEN CreateAccountConflict(as[k], account_name)
                ELSE as[k]]
        ELSE IF ForeignKeysOn /\ ~ParentsExist(us, ps, user_id, project_id)
        THEN as
        ELSE [as EXCEPT ![id] =
                NewAccountRow(user_id, project_id, platform, account_id,
                              account_name, "pending", DefaultServerVersion)]

\* UPDATE platform_accounts SET account_name = ?1, ... WHERE id = ?9
update_platform_account_profile(as, id, account_name) ==
    IF as[id] = NoRow THEN as
    ELSE [as EXCEPT ![id] = [@ EXCEPT !.account_name = account_name]]

\* DELETE FROM platform_accounts WHERE id = ?1
delete_platform_account(as, id) == [as EXCEPT ![id] = NoRow]

\* the merge of Repository::sync_platform_account into an existing row: a
\* Pending row is left alone, NULL never overwrites, the row becomes Synced
SyncAccountMerge(row, project_id, platform, account_id, account_name, is_deleted, server_version) ==
    IF row.sync_status = "pending" THEN row
    ELSE [row EXCEPT !.project_id = project_id,
                     !.platform = platform,
                     !.account_id = account_id,
                     !.account_name = Coalesce(account_name, @),
                     !.is_deleted = is_deleted,
                     !.sync_status = "synced",
                     !.server_version = server_version]

\* the row Repository::sync_platform_account writes to: the row of that id,
\* else the row of that triple, else a new row of that id
SyncAccountTarget(as, id, project_id, platform, account_id) ==
    IF as[id] # NoRow THEN id
    ELSE IF ConflictRows(as, project_id, platform, account_id) # {}
    THEN CHOOSE k \in ConflictRows(as, project_id, platform, account_id) : TRUE
    ELSE id

\* whether Repository::sync_platform_account returns an error: a missing
\* parent, or a triple that another row holds
SyncAccountFails(as, us, ps, id, user_id, project_id, platform, account_id) ==
    LET k == SyncAccountTarget(as, id, project_id, platform, account_id)
    IN  \/ ForeignKeysOn /\ ~ParentsExist(us, ps, user_id, project_id)
        \/ /\ as[k] # NoRow /\ as[k].sync_status # "pending"
           /\ ConflictRows(as, project_id, platform, account_id) \ {k} # {}

\* Repository::sync_platform_account
sync_platform_account(as, us, ps, id, user_id, project_id, platform, account_id, account_name, is_deleted, server_version) ==
    LET k == SyncAccountTarget(as, id, project_id, platform, account_id)
    IN  IF SyncAccountFails(as, us, ps, id, user_id, project_id, platform,
                            account_id)
        THEN as
        ELSE IF as[k] = NoRow
        THEN [as EXCEPT ![k] =
                [NewAccountRow(user_id, project_id, platform, account_id,
                               account_name, "synced", server_version)
                    EXCEPT !.is_deleted = is_deleted]]
        ELSE [as EXCEPT ![k] =
                SyncAccountMerge(@, project_id, platform, account_id,
                                 account_name, is_deleted, server_version)]

----------------------------------------------------------------------------
(* What the remote service answers *)

\* GET /sys/users/me
RemoteUser ==
    [uuid |-> UserId, email |-> NULL, username |-> "alice",
     nickname |-> "Alice", avatar |-> NULL]

\* one item of GET /projects
ApiProject(id) == [id |-> id, name |-> "remote", description |-> NULL]

\* the item lists GET /projects can answer: any projects, in any order
RemoteLists ==
    {<<>>} \cup {<<ApiProject(p)>> : p \in ProjectIds}
    \cup {<<ApiProject(pq[1]), ApiProject(pq[2])>> :
            pq \in {x \in ProjectIds \X ProjectIds : x[1] # x[2]}}

\* the items GET /platform-accounts can carry
ApiAccounts ==
    [id : AccountIds, project_id : ProjectIds, platform : {Platform},
     account_id : {ExternalId}, account_name : {NULL, "remote"},
     is_deleted : {FALSE}, server_version : RemoteVersions]

\* the lists GET /platform-accounts can answer
RemoteAccountLists == {<<>>} \cup {<<a>> : a \in ApiAccounts}

----------------------------------------------------------------------------
(* The providers as the engine sees them: one call, its store effects and  *)
(* its result.  ok is whether the provider's network call succeeded.       *)

RECURSIVE ApplyItems(_, _, _)
\* for p in resp.data.items { repo.sync_project(...)?; }
ApplyItems(ps, user_id, items) ==
    IF items = <<>> THEN ps
    ELSE ApplyItems(sync_project(ps, items[1].id, user_id,
                                 items[1].name, items[1].description),
                    user_id, Tail(items))

\* the users table after provider name's pull
PullUsers(us, name, ok) ==
    CASE name = "User" ->
            IF ok
            THEN sync_user(us, RemoteUser.uuid, RemoteUser.email,
                           RemoteUser.username, RemoteUser.nickname,
                           RemoteUser.avatar)
            ELSE us
      [] name = "Project" -> ensure_user_exists(us, UserId)
      [] name = "PlatformAccount" -> ensure_user_exists(us, UserId)

\* the projects table after provider name's pull
PullProjects(ps, name, ok, items) ==
    IF name = "Project" /\ ok THEN ApplyItems(ps, UserId, items) ELSE ps

RECURSIVE MarkAll(_, _, _)
MarkAll(ps, ids, t) ==
    IF ids = {} THEN ps
    ELSE LET id == CHOOSE x \in ids : TRUE
         IN  MarkAll(mark_project_synced(ps, id, t), ids \ {id}, t)

\* the projects table after provider name's push, the remote having
\* accepted the projects accepted before the push returned
PushProjects(ps, name, accepted, t) ==
    IF name = "Project" THEN MarkAll(ps, accepted, t) ELSE ps

\* what the push of provider name can have got accepted: UserProvider::push
\* submits nothing; ProjectProvider::push stops at the first rejection
PushAccepted(ps, name) ==
    IF name = "Project" THEN SUBSET list_pending_projects(ps, UserId) ELSE {{}}

\* the Result of provider name's push
PushResult(ps, name, accepted, ok) ==
    CASE name = "User" -> Ok
      [] name = "Project" ->
            IF accepted = list_pending_projects(ps, UserId) THEN Ok ELSE Err("e")
      [] name = "PlatformAccount" -> IF ok THEN Ok ELSE Err("e")

----------------------------------------------------------------------------
(* SyncEngine::start_sync *)

\* (mutant) the guard does not look at is_syncing
GuardBusyNever(st) == FALSE

\* if status.is_syncing { return Ok(()); }
GuardBusy(st) == st.is_syncing

\* (mutant) the guard leaves last_error as it is
GuardStatusNoClear(st) == [st EXCEPT !.is_syncing = TRUE]

\* status.is_syncing = true; status.last_error = None;
GuardStatus(st) == [st EXCEPT !.is_syncing = TRUE, !.last_error = None]

\* (mutant) the early return resets is_syncing
SuppressedStatusReset(st) == [st EXCEPT !.is_syncing = FALSE]

\* the status a suppressed call leaves
SuppressedStatus(st) == st

\* if let Err(e) = provider.pull(...).await { final_result = Err(err_msg.clone()); }
AfterPull(fr, name, r) ==
    IF is_ok(r) THEN fr ELSE Err(PullFailed(name))

\* if let Err(e) = provider.push(...).await
\*     { if final_result.is_ok() { final_result = Err(err_msg); } }
AfterPush(fr, name, r) ==
    IF is_ok(r) THEN fr
    ELSE IF is_ok(fr) THEN Err(PushFailed(name)) ELSE fr

\* (mutant) a failed pull ends the loop
AfterPullPcAbort(i, r) == IF is_ok(r) THEN "push" ELSE "final"

\* (mutant) a failed pull returns from start_sync at once
AfterPullPcReturn(i, r) == IF is_ok(r) THEN "push" ELSE "returned"

\* where the for loop goes after provider i's pull
AfterPullPc(i, r) == "push"

\* where the for loop goes after provider i's push
AfterPushPc(i, r) == IF i < NumProviders THEN "pull" ELSE "final"

\* (mutant) the final update stamps last_sync_time after every pass
FinishStatusStamp(st, fr, t) ==
    [is_syncing |-> FALSE,
     last_sync_time |-> Some(t),
     last_error |-> IF is_ok(fr) THEN st.last_error ELSE err(fr)]

\* the final update of the status record
FinishStatus(st, fr, t) ==
    [is_syncing |-> FALSE,
     last_sync_time |-> IF is_ok(fr) THEN Some(t) ELSE st.last_sync_time,
     last_error |-> IF is_ok(fr) THEN st.last_error ELSE err(fr)]

\* history: the first error message of a pass
NoteErr(fe, msg) == IF fe = None THEN Some(msg) ELSE fe

InPass(c) == pc[c] \in {"pull", "in_pull", "push", "in_push", "final"}

\* the guard of start_sync, under the status lock
StartSync(c) ==
    /\ pc[c] = "idle"
    /\ IF GuardBusy(status)
       THEN /\ status' = SuppressedStatus(status)
            /\ pc' = [pc EXCEPT ![c] = "returned"]
            /\ ret' = [ret EXCEPT ![c] = Ok]
            /\ UNCHANGED <<idx, final_result, firstErr, log>>
       ELSE /\ status' = GuardStatus(status)
            /\ pc' = [pc EXCEPT ![c] = "pull"]
            /\ idx' = [idx EXCEPT ![c] = 1]
            /\ final_result' = [final_result EXCEPT ![c] = Ok]
            /\ firstErr' = [firstErr EXCEPT ![c] = None]
            /\ log' = <<>>
            /\ UNCHANGED ret
    /\ UNCHANGED <<now, storeVars, providerVars>>
    /\ UNCHANGED <<histVars, accountVars>>
    /\ UNCHANGED twiceVars
    /\ UNCHANGED <<registry, lockVars, remote, sidecarVars>>

\* provider.pull(...) is called
PullStart(c) ==
    /\ pc[c] = "pull"
    /\ pc' = [pc EXCEPT ![c] = "in_pull"]
    /\ log' = Append(log, <<c, "pull", Providers[idx[c]], "start">>)
    /\ UNCHANGED <<status, idx, final_result, ret, firstErr, now,
                   storeVars, providerVars>>
    /\ UNCHANGED <<histVars, accountVars>>
    /\ UNCHANGED twiceVars
    /\ UNCHANGED <<registry, lockVars, remote, sidecarVars>>

\* provider.pull(...).await returns
PullReturn(c) ==
    /\ pc[c] = "in_pull"
    /\ \E ok \in BOOLEAN, items \in RemoteLists :
        LET name == Providers[idx[c]]
            r == IF ok THEN Ok ELSE Err("e")
        IN  /\ users' = PullUsers(users, name, ok)
            /\ projects' = PullProjects(projects, name, ok, items)
            /\ final_result' = [final_result EXCEPT ![c] = AfterPull(@, name, r)]
            /\ firstErr' = [firstErr EXCEPT ![c] =
                             IF ok THEN @ ELSE NoteErr(@, PullFailed(name))]
            /\ log' = Append(log, <<c, "pull", name, "end">>)
            /\ pc' = [pc EXCEPT ![c] = AfterPullPc(idx[c], r)]
    /\ UNCHANGED <<status, idx, ret, now, providerVars>>
    /\ UNCHANGED <<histVars, accountVars>>
    /\ UNCHANGED twiceVars
    /\ UNCHANGED <<registry, lockVars, remote, sidecarVars>>

\* provider.push(...) is called
PushStart(c) ==
    /\ pc[c] = "push"
    /\ pc' = [pc EXCEPT ![c] = "in_push"]
    /\ log' = Append(log, <<c, "push", Providers[idx[c]], "start">>)
    /\ UNCHANGED <<status, idx, final_result, ret, firstErr, now,
                   storeVars, providerVars>>
    /\ UNCHANGED <<histVars, accountVars>>
    /\ UNCHANGED twiceVars
    /\ UNCHANGED <<registry, lockVars, remote, sidecarVars>>

\* provider.push(...).await returns
PushReturn(c) ==
    /\ pc[c] = "in_push"
    /\ \E ok \in BOOLEAN :
       \E accepted \in PushAccepted(projects, Providers[idx[c]]) :
        LET name == Providers[idx[c]]
            r == PushResult(projects, name, accepted, ok)
        IN  /\ projects' = PushProjects(projects, name, accepted, now)
            /\ final_result' = [final_result EXCEPT ![c] = AfterPush(@, name, r)]
            /\ firstErr' = [firstErr EXCEPT ![c] =
                             IF is_ok(r) THEN @ ELSE NoteErr(@, PushFailed(name))]
            /\ log' = Append(log, <<c, "push", name, "end">>)
            /\ pc' = [pc EXCEPT ![c] = AfterPushPc(idx[c], r)]
            /\ idx' = [idx EXCEPT ![c] =
                         IF AfterPushPc(idx[c], r) = "pull" THEN @ + 1 ELSE @]
    /\ UNCHANGED <<status, ret, now, users, providerVars>>
    /\ UNCHANGED <<histVars, accountVars>>
    /\ UNCHANGED twiceVars
    /\ UNCHANGED <<registry, lockVars, remote, sidecarVars>>

\* the final status update of start_sync, under the status lock, and its return
Finish(c) ==
    /\ pc[c] = "final"
    /\ status' = FinishStatus(status, final_result[c], now)
    /\ ret' = [ret EXCEPT ![c] = final_result[c]]
    /\ pc' = [pc EXCEPT ![c] = "returned"]
    /\ idx' = [idx EXCEPT ![c] = 1]
    /\ final_result' = [final_result EXCEPT ![c] = Ok]
    /\ UNCHANGED <<firstErr, log, now, storeVars, providerVars>>
    /\ UNCHANGED <<histVars, accountVars>>
    /\ UNCHANGED twiceVars
    /\ UNCHANGED <<registry, lockVars, remote, sidecarVars>>

\* match engine.start_sync(user_id, token).await { Ok(_) => emit
\* "sync-complete", Err(e) => emit "sync-error" }
SyncEvent(r) == IF is_ok(r) THEN "sync-complete" ELSE "sync-error"

\* the task spawned by the start_sync command takes the result
\* (sync-complete or sync-error is emitted) and ends
TaskEnd(c) ==
    /\ pc[c] = "returned"
    /\ pc' = [pc EXCEPT ![c] = "idle"]
    /\ ret' = [ret EXCEPT ![c] = None]
    /\ firstErr' = [firstErr EXCEPT ![c] = None]
    /\ UNCHANGED <<status, idx, final_result, log, now,
                   storeVars, providerVars>>
    /\ UNCHANGED <<histVars, accountVars>>
    /\ UNCHANGED twiceVars
    /\ UNCHANGED <<registry, lockVars, remote, sidecarVars>>

\* time passes
Tick ==
    /\ now < MaxTime
    /\ now' = now + 1
    /\ UNCHANGED <<status, pc, idx, final_result, ret, firstErr, log,
                   storeVars, providerVars>>
    /\ UNCHANGED <<histVars, accountVars>>
    /\ UNCHANGED twiceVars
    /\ UNCHANGED <<registry, lockVars, remote, sidecarVars>>

\* the row the login commands write with sync_user
LoginUserRow ==
    [email |-> "alice@example.org", username |-> "alice-at-login",
     nickname |-> "Alice", avatar |-> NULL]

\* SyncEngine::new, after init_schema and a login; project p2 was created
\* locally and is not yet pushed
Init ==
    /\ status = [is_syncing |-> FALSE, last_sync_time |-> None, last_error |-> None]
    /\ pc = [c \in Callers |-> "idle"]
    /\ idx = [c \in Callers |-> 1]
    /\ final_result = [c \in Callers |-> Ok]
    /\ ret = [c \in Callers |-> None]
    /\ firstErr = [c \in Callers |-> None]
    /\ log = <<>>
    /\ now = 0
    /\ users = [u \in UserIds |->
                 IF u = "current-user" THEN DefaultUserRow ELSE LoginUserRow]
    /\ projects = [p \in ProjectIds |->
                    IF p = "p2"
                    THEN NewProjectRow(UserId, "local", NULL, "pending")
                    ELSE NoRow]
    /\ ppc = "idle"
    /\ pullq = <<>>
    /\ pushq = <<>>
    /\ pushed = [p \in ProjectIds |-> "none"]
    /\ base = [p \in ProjectIds |-> 0]
    /\ presult = None
    /\ confirmed = [p \in ProjectIds |-> 0]
    /\ clean = [p \in ProjectIds |-> FALSE]
    /\ accounts = [k \in AccountIds |-> NoRow]
    /\ apc = "idle"
    /\ aq = <<>>
    /\ updated_at = [users |-> [u \in UserIds |-> None],
                     projects |-> [p \in ProjectIds |-> None],
                     accounts |-> [k \in AccountIds |-> None]]
    /\ tpc = "off"
    /\ payload = NoRow
    /\ first = NoRow
    /\ registry = Providers
    /\ locks = [l \in Locks |-> Free]
    /\ thr = [t \in Threads |-> IdleThread]
    /\ snapshot = None
    /\ remote = [p \in ProjectIds |-> 0]
    /\ SidecarManagerNew

Next ==
    \/ \E c \in Callers : StartSync(c)
    \/ \E c \in Callers : PullStart(c)
    \/ \E c \in Callers : PullReturn(c)
    \/ \E c \in Callers : PushStart(c)
    \/ \E c \in Callers : PushReturn(c)
    \/ \E c \in Callers : Finish(c)
    \/ \E c \in Callers : TaskEnd(c)
    \/ Tick

Spec == Init /\ [][Next]_vars

\* the steps of a pass the async runtime takes once the call is spawned
PassStep(c) ==
    PullStart(c) \/ PullReturn(c) \/ PushStart(c) \/ PushReturn(c) \/ Finish(c)

\* the runtime polls a spawned future until it completes, and every provider
\* call returns (the ApiClient's requests time out after 30 s)
FairSpec == Spec /\ \A c \in Callers : WF_vars(PassStep(c))

----------------------------------------------------------------------------
(* Claims about the engine *)

PassCallers == {c \in Callers : InPass(c)}

StartEvents == {i \in 1..Len(log) : log[i][4] = "start"}

\* C1: under any interleaving of concurrent start_sync calls at most one
\* pass is executing, and the provider calls made since the last pass
\* started are one sequence: all made by one call, none made twice.
C1_SingleFlight ==
    /\ Cardinality(PassCallers) <= 1
    /\ \A i, j \in 1..Len(log) : log[i][1] = log[j][1]
    /\ \A i, j \in StartEvents :
          i # j => <<log[i][2], log[i][3]>> # <<log[j][2], log[j][3]>>

\* a call is suppressed while the other call's pull is in flight
C1_Witness ==
    \E c, d \in Callers :
        /\ pc[c] = "in_pull" /\ idx[c] = 2
        /\ pc[d] = "returned" /\ ret[d] = Ok

Invoked(op, name) == \E i \in StartEvents : log[i][2] = op /\ log[i][3] = name

\* a step in which the pass of call c records a provider error
ErrorStep(c) ==
    /\ pc[c] \in {"in_pull", "in_push"}
    /\ pc'[c] # pc[c]
    /\ (firstErr'[c] # firstErr[c] \/ final_result'[c] # final_result[c])

\* C4: a provider error does not abort the pass: when the loop is left every
\* provider's pull and push have been invoked whatever failed, and the step
\* that records the error of provider i leaves the rows written by the
\* earlier providers as they are.
C4_NoAbort ==
    [][ /\ \A c \in Callers :
             pc'[c] \in {"final", "returned"} /\ InPass(c) =>
                \A i \in 1..NumProviders :
                    Invoked("pull", Providers[i])' /\ Invoked("push", Providers[i])'
        /\ \A c \in Callers :
             ErrorStep(c) =>
                /\ idx[c] >= 2 => \A u \in UserIds :
                                     users[u] # NoRow => users'[u] = users[u]
                /\ idx[c] >= 3 => projects' = projects
      ]_vars

\* a pass in which the Project pull failed after the User pull changed the
\* user row has reached the end of the loop
C4_Witness ==
    \E c \in Callers :
        /\ pc[c] = "final"
        /\ firstErr[c] = Some(PullFailed("Project"))
        /\ users[UserId].username = RemoteUser.username
        /\ Invoked("push", "PlatformAccount")

RegistrationOrder == <<"User", "Project", "PlatformAccount">>

\* the i-th provider event of a pass run by call c
PassEvent(c, i) ==
    <<c,
      IF (i - 1) % 4 < 2 THEN "pull" ELSE "push",
      RegistrationOrder[((i - 1) \div 4) + 1],
      IF (i - 1) % 2 = 0 THEN "start" ELSE "end">>

\* C5: within a pass the providers are processed in registration order
\* (User, Project, PlatformAccount), a provider's pull has ended before its
\* push starts, and a pull starts only after the pulls of the providers
\* registered earlier have ended.
C5_RegistrationOrder ==
    /\ Len(log) <= 4 * Len(RegistrationOrder)
    /\ \A i \in 1..Len(log) : log[i] = PassEvent(log[1][1], i)

C5_Witness ==
    /\ Len(log) = 4 * NumProviders
    /\ \E c \in Callers : pc[c] = "final" /\ firstErr[c] # None

\* C6: start_sync returns Ok(()) if and only if no provider call of the
\* pass returned an error, and otherwise returns the first error of the pass.
C6_FirstError ==
    \A c \in Callers :
        pc[c] = "returned" =>
            /\ is_ok(ret[c]) <=> firstErr[c] = None
            /\ firstErr[c] # None => ret[c] = Err(firstErr[c][2])

\* C7: a start_sync call made while is_syncing is true returns Ok(()) at
\* once, makes no provider call, is not in a pass afterwards, and leaves the
\* status record and the store unchanged.
C7_Suppressed ==
    [][ \A c \in Callers :
          pc[c] = "idle" /\ status.is_syncing /\ pc'[c] # "idle" =>
             /\ pc'[c] = "returned"
             /\ ret'[c] = Ok
             /\ status' = status
             /\ log' = log
             /\ users' = users /\ projects' = projects
      ]_vars

\* a suppressed call has returned while the pass it met is at its last provider
C7_Witness ==
    \E c, d \in Callers :
        /\ pc[c] = "returned" /\ ret[c] = Ok /\ firstErr[c] = None
        /\ status.is_syncing
        /\ pc[d] = "in_push" /\ idx[d] = NumProviders

\* C8: when a pass finishes is_syncing is false; if no provider call failed
\* last_sync_time is the completion time and last_error is None; otherwise
\* last_error is Some and is the error start_sync returns.
C8_FinishStatus ==
    [][ \A c \in Callers :
          pc[c] = "final" /\ pc'[c] # "final" =>
             /\ ~status'.is_syncing
             /\ IF firstErr[c] = None
                THEN /\ status'.last_sync_time = Some(now)
                     /\ status'.last_error = None
                     /\ ret'[c] = Ok
                ELSE /\ status'.last_error # None
                     /\ ret'[c] = Err(status'.last_error[2])
      ]_vars

\* a failed pass has finished at time 1 after a clean one finished at time 0
C8_Witness ==
    \E c \in Callers :
        /\ pc[c] = "returned" /\ ret[c] # Ok
        /\ status.last_error = err(ret[c])
        /\ status.last_sync_time = Some(0) /\ now = 1
        /\ ~status.is_syncing

\* C9: every pass that starts ends: is_syncing, once true, is false again
\* later, whichever provider calls fail.
C9_PassEnds == status.is_syncing ~> ~status.is_syncing

\* a pass in which every fallible provider call so far failed is at its end
C9_Witness ==
    \E c \in Callers :
        /\ pc[c] = "final" /\ status.is_syncing
        /\ firstErr[c] = Some(PullFailed("User"))
        /\ final_result[c] = Err(PullFailed("PlatformAccount"))

----------------------------------------------------------------------------
(* ProjectProvider step by step.  The Repository releases its connection   *)
(* lock after every call, and the commands of the UI run on other threads, *)
(* so a local mutation can take place between any two of these steps.      *)

\* the orders in which list_pending_projects can return the rows of ids
Orders(ids) ==
    {s \in [1..Cardinality(ids) -> ids] :
        \A i, j \in 1..Cardinality(ids) : i # j => s[i] # s[j]}

\* let body = serde_json::json!({ "id": p.id, "name": p.name, ... }): the
\* columns of the row that the request carries
PushBody(id, row) ==
    [id |-> id, name |-> row.name, description |-> row.description]

\* (mutant) the result of the POST is ignored and the project marked
AfterPostIgnored(outcome) == "push_mark"

\* let resp = client.post(...).await?; if resp.data.id != p.id { return Err(..) }
AfterPost(outcome) == IF outcome = "ok" THEN "push_mark" ELSE "idle"

\* the engine calls pull: repo.ensure_user_exists(user_id), then the GET is sent
ProjPullBegin ==
    /\ ppc = "idle"
    /\ users' = ensure_user_exists(users, UserId)
    /\ ppc' = "pull_get"
    /\ pushed' = [p \in ProjectIds |-> "none"]
    /\ presult' = None
    /\ confirmed' = [p \in ProjectIds |-> 0]
    /\ UNCHANGED <<engineVars, projects, pullq, pushq, base, clean, accountVars>>
    /\ UNCHANGED twiceVars
    /\ UNCHANGED <<registry, lockVars, remote, sidecarVars>>

\* client.get("/projects").await returns
ProjPullGet ==
    /\ ppc = "pull_get"
    /\ \E ok \in BOOLEAN, items \in RemoteLists :
        IF ok
        THEN /\ pullq' = items
             /\ ppc' = IF items = <<>> THEN "push_list" ELSE "pull_apply"
             /\ presult' = IF items = <<>> THEN Ok ELSE presult
        ELSE /\ pullq' = <<>>
             /\ ppc' = "push_list"
             /\ presult' = Err("e")
    /\ UNCHANGED <<engineVars, storeVars, pushq, pushed, base, histVars, accountVars>>
    /\ UNCHANGED twiceVars
    /\ UNCHANGED <<registry, lockVars, remote, sidecarVars>>

\* one round of for p in resp.data.items { repo.sync_project(...) }
ProjPullApply ==
    /\ ppc = "pull_apply"
    /\ LET p == Head(pullq)
       IN  /\ projects' = sync_project(projects, p.id, UserId, p.name, p.description)
           /\ base' = [base EXCEPT ![p.id] = projects'[p.id].local_version]
    /\ pullq' = Tail(pullq)
    /\ ppc' = IF Tail(pullq) = <<>> THEN "push_list" ELSE "pull_apply"
    /\ presult' = IF Tail(pullq) = <<>> THEN Ok ELSE presult
    /\ UNCHANGED <<engineVars, users, pushq, pushed, histVars, accountVars>>
    /\ UNCHANGED twiceVars
    /\ UNCHANGED <<registry, lockVars, remote, sidecarVars>>

\* the engine calls push: repo.list_pending_projects(user_id)
ProjPushList ==
    /\ ppc = "push_list"
    /\ \E order \in Orders(list_pending_projects(projects, UserId)) :
        /\ pushq' = [i \in DOMAIN order |->
                       [id |-> order[i],
                        local_version |-> projects[order[i]].local_version,
                        row |-> projects[order[i]],
                        body |-> PushBody(order[i], projects[order[i]])]]
        /\ pushed' = [p \in ProjectIds |->
                        IF \E i \in DOMAIN order : order[i] = p
                        THEN "listed" ELSE "none"]
        /\ ppc' = IF order = <<>> THEN "idle" ELSE "push_put"
        /\ presult' = IF order = <<>> THEN Ok ELSE None
    /\ UNCHANGED <<engineVars, storeVars, pullq, base, histVars, accountVars>>
    /\ UNCHANGED twiceVars
    /\ UNCHANGED <<registry, lockVars, remote, sidecarVars>>

\* client.put("/projects/{id}").await returns
ProjPushPut ==
    /\ ppc = "push_put"
    /\ \E ok \in BOOLEAN, v \in RemoteVersions :
        IF ok
        THEN /\ ppc' = "push_mark"
             /\ pushed' = [pushed EXCEPT ![Head(pushq).id] = "accepted"]
             /\ confirmed' = [confirmed EXCEPT ![Head(pushq).id] = v]
        ELSE /\ ppc' = "push_post"
             /\ UNCHANGED <<pushed, confirmed>>
    /\ UNCHANGED <<engineVars, storeVars, pullq, pushq, base, presult, clean,
                   accountVars>>
    /\ UNCHANGED twiceVars
    /\ UNCHANGED <<registry, lockVars, remote, sidecarVars>>

\* client.post("/projects").await returns: the project is created, the
\* request fails, or the answer carries another id
ProjPushPost ==
    /\ ppc = "push_post"
    /\ \E outcome \in {"ok", "err", "mismatch"}, v \in RemoteVersions :
        /\ ppc' = AfterPost(outcome)
        /\ confirmed' = [confirmed EXCEPT ![Head(pushq).id] =
                           IF outcome = "ok" THEN v ELSE @]
        /\ pushed' = [pushed EXCEPT ![Head(pushq).id] =
                        CASE outcome = "ok" -> "accepted"
                          [] outcome = "err" -> "rejected"
                          [] outcome = "mismatch" -> "mismatch"]
        /\ presult' = IF AfterPost(outcome) = "idle" THEN Err("e") ELSE presult
    /\ UNCHANGED <<engineVars, storeVars, pullq, pushq, base, clean, accountVars>>
    /\ UNCHANGED twiceVars
    /\ UNCHANGED <<registry, lockVars, remote, sidecarVars>>

\* repo.mark_project_synced(&p.id), and the loop goes on
ProjPushMark ==
    /\ ppc = "push_mark"
    /\ LET p == Head(pushq)
       IN  /\ projects' = mark_project_synced(projects, p.id, now)
           /\ base' = [base EXCEPT ![p.id] = p.local_version]
           /\ pushed' = [pushed EXCEPT ![p.id] =
                           IF @ = "accepted" THEN "marked" ELSE "marked_unconfirmed"]
           /\ clean' = [clean EXCEPT ![p.id] = TRUE]
    /\ pushq' = Tail(pushq)
    /\ ppc' = IF Tail(pushq) = <<>> THEN "idle" ELSE "push_put"
    /\ presult' = IF Tail(pushq) = <<>> THEN Ok ELSE presult
    /\ UNCHANGED <<engineVars, users, pullq, confirmed, accountVars>>
    /\ UNCHANGED twiceVars
    /\ UNCHANGED <<registry, lockVars, remote, sidecarVars>>

(* The commands of the UI *)

\* db_create_project: the INSERT needs the user row (foreign key)
CreateProject ==
    /\ ForeignKeysOn => users[UserId] # NoRow
    /\ \E id \in ProjectIds :
        /\ projects[id] = NoRow
        /\ projects' = create_project(projects, id, UserId, "local", NULL)
        /\ clean' = [clean EXCEPT ![id] = FALSE]
    /\ UNCHANGED <<engineVars, users, providerVars, confirmed, accountVars>>
    /\ UNCHANGED twiceVars
    /\ UNCHANGED <<registry, lockVars, remote, sidecarVars>>

\* a project edit of the UI
UpdateProject ==
    /\ \E id \in ProjectIds :
        /\ projects[id] # NoRow
        /\ projects[id].local_version < MaxVersion
        /\ projects' = update_project(projects, id, "local", NULL)
        /\ clean' = [clean EXCEPT ![id] = FALSE]
    /\ UNCHANGED <<engineVars, users, providerVars, confirmed, accountVars>>
    /\ UNCHANGED twiceVars
    /\ UNCHANGED <<registry, lockVars, remote, sidecarVars>>

\* db_delete_project
DeleteProject ==
    /\ \E id \in ProjectIds :
        /\ projects[id] # NoRow
        /\ projects[id].local_version < MaxVersion
        /\ projects' = delete_project(projects, id)
        /\ clean' = [clean EXCEPT ![id] = FALSE]
    /\ UNCHANGED <<engineVars, users, providerVars, confirmed, accountVars>>
    /\ UNCHANGED twiceVars
    /\ UNCHANGED <<registry, lockVars, remote, sidecarVars>>

\* the store after init_schema, nobody logged in yet, no pass running
StoreInit ==
    /\ status = [is_syncing |-> FALSE, last_sync_time |-> None, last_error |-> None]
    /\ pc = [c \in Callers |-> "idle"]
    /\ idx = [c \in Callers |-> 1]
    /\ final_result = [c \in Callers |-> Ok]
    /\ ret = [c \in Callers |-> None]
    /\ firstErr = [c \in Callers |-> None]
    /\ log = <<>>
    /\ now = 0
    /\ users = [u \in UserIds |->
                 IF u = "current-user" THEN DefaultUserRow ELSE NoRow]
    /\ projects = [p \in ProjectIds |-> NoRow]
    /\ ppc = "idle"
    /\ pullq = <<>>
    /\ pushq = <<>>
    /\ pushed = [p \in ProjectIds |-> "none"]
    /\ base = [p \in ProjectIds |-> 0]
    /\ presult = None
    /\ confirmed = [p \in ProjectIds |-> 0]
    /\ clean = [p \in ProjectIds |-> FALSE]
    /\ accounts = [k \in AccountIds |-> NoRow]
    /\ apc = "idle"
    /\ aq = <<>>
    /\ updated_at = [users |-> [u \in UserIds |-> None],
                     projects |-> [p \in ProjectIds |-> None],
                     accounts |-> [k \in AccountIds |-> None]]
    /\ tpc = "off"
    /\ payload = NoRow
    /\ first = NoRow
    /\ registry = Providers
    /\ locks = [l \in Locks |-> Free]
    /\ thr = [t \in Threads |-> IdleThread]
    /\ snapshot = None
    /\ remote = [p \in ProjectIds |-> 0]
    /\ SidecarManagerNew

StoreNext ==
    \/ ProjPullBegin
    \/ ProjPullGet
    \/ ProjPullApply
    \/ ProjPushList
    \/ ProjPushPut
    \/ ProjPushPost
    \/ ProjPushMark
    \/ CreateProject
    \/ UpdateProject
    \/ DeleteProject

StoreSpec == StoreInit /\ [][StoreNext]_vars

----------------------------------------------------------------------------
(* AccountProvider::pull step by step, with the account commands of the UI *)
(* and the project commands in between.                                    *)

\* the engine calls pull: repo.ensure_user_exists(user_id), then the GET is sent
AccPullBegin ==
    /\ apc = "idle"
    /\ users' = ensure_user_exists(users, UserId)
    /\ apc' = "pull_get"
    /\ presult' = None
    /\ UNCHANGED <<engineVars, projects, ppc, pullq, pushq, pushed, base,
                   histVars, accounts, aq>>
    /\ UNCHANGED twiceVars
    /\ UNCHANGED <<registry, lockVars, remote, sidecarVars>>

\* client.get("/platform-accounts").await returns
AccPullGet ==
    /\ apc = "pull_get"
    /\ \E ok \in BOOLEAN, items \in RemoteAccountLists :
        IF ok
        THEN /\ aq' = items
             /\ apc' = IF items = <<>> THEN "idle" ELSE "pull_ensure"
             /\ presult' = IF items = <<>> THEN Ok ELSE presult
        ELSE /\ aq' = <<>>
             /\ apc' = "idle"
             /\ presult' = Err("e")
    /\ UNCHANGED <<engineVars, storeVars, ppc, pullq, pushq, pushed, base,
                   histVars, accounts>>
    /\ UNCHANGED twiceVars
    /\ UNCHANGED <<registry, lockVars, remote, sidecarVars>>

\* repo.ensure_project_exists(&acc.project_id, user_id)
AccPullEnsure ==
    /\ apc = "pull_ensure"
    /\ users' = ensure_user_exists(users, UserId)
    /\ projects' = ensure_project_exists(projects, Head(aq).project_id, UserId)
    /\ apc' = "pull_sync"
    /\ UNCHANGED <<engineVars, providerVars, histVars, accounts, aq>>
    /\ UNCHANGED twiceVars
    /\ UNCHANGED <<registry, lockVars, remote, sidecarVars>>

\* repo.sync_platform_account(...)?, and the loop goes on
AccPullSync ==
    /\ apc = "pull_sync"
    /\ LET acc == Head(aq)
       IN  IF SyncAccountFails(accounts, users, projects, acc.id, UserId,
                               acc.project_id, acc.platform, acc.account_id)
           THEN /\ presult' = Err("e")
                /\ aq' = <<>>
                /\ apc' = "idle"
                /\ UNCHANGED accounts
           ELSE /\ accounts' = sync_platform_account(accounts, users, projects,
                                  acc.id, UserId, acc.project_id, acc.platform,
                                  acc.account_id, acc.account_name,
                                  acc.is_deleted, acc.server_version)
                /\ aq' = Tail(aq)
                /\ apc' = IF Tail(aq) = <<>> THEN "idle" ELSE "pull_ensure"
                /\ presult' = IF Tail(aq) = <<>> THEN Ok ELSE presult
    /\ UNCHANGED <<engineVars, storeVars, ppc, pullq, pushq, pushed, base,
                   histVars>>
    /\ UNCHANGED twiceVars
    /\ UNCHANGED <<registry, lockVars, remote, sidecarVars>>

\* db_create_account: repo.ensure_project_exists(&project_id, &user_id),
\* then repo.create_platform_account(..), where gen_uuid() gives an id no
\* row has
CreateAccount ==
    /\ \E id \in AccountIds, project_id \in ProjectIds,
          account_name \in {NULL, "local"} :
        /\ accounts[id] = NoRow
        /\ users' = ensure_user_exists(users, UserId)
        /\ projects' = ensure_project_exists(projects, project_id, UserId)
        /\ accounts' = create_platform_account(accounts, users', projects', id,
                          UserId, project_id, Platform, ExternalId, account_name)
    /\ UNCHANGED <<engineVars, providerVars, histVars, apc, aq>>
    /\ UNCHANGED twiceVars
    /\ UNCHANGED <<registry, lockVars, remote, sidecarVars>>

\* update_platform_account_profile with the profile the platform shows
UpdateAccountProfile ==
    /\ \E id \in AccountIds :
        /\ accounts[id] # NoRow
        /\ accounts' = update_platform_account_profile(accounts, id, "local")
    /\ UNCHANGED <<engineVars, storeVars, providerVars, histVars, apc, aq>>
    /\ UNCHANGED twiceVars
    /\ UNCHANGED <<registry, lockVars, remote, sidecarVars>>

\* db_delete_platform_account
DeleteAccount ==
    /\ \E id \in AccountIds :
        /\ accounts[id] # NoRow
        /\ accounts' = delete_platform_account(accounts, id)
    /\ UNCHANGED <<engineVars, storeVars, providerVars, histVars, apc, aq>>
    /\ UNCHANGED twiceVars
    /\ UNCHANGED <<registry, lockVars, remote, sidecarVars>>

AccountNext ==
    \/ AccPullBegin
    \/ AccPullGet
    \/ AccPullEnsure
    \/ AccPullSync
    \/ CreateAccount
    \/ UpdateAccountProfile
    \/ DeleteAccount
    \/ CreateProject

AccountSpec == StoreInit /\ [][AccountNext]_vars

----------------------------------------------------------------------------
(* Claims about the Project provider and the store *)

Exists(p) == projects[p] # NoRow
Pending(p) == Exists(p) /\ projects[p].sync_status = "pending"
Synced(p) == Exists(p) /\ projects[p].sync_status = "synced"

InPush == ppc \in {"push_list", "push_put", "push_post", "push_mark"}

\* C2: a pull that applies a remote record to a row that is Pending does not
\* merge it: the row stays Pending and keeps its locally edited fields.
C2_PendingNotOverwritten ==
    [][ \A p \in ProjectIds :
          ppc = "pull_apply" /\ Head(pullq).id = p /\ Pending(p) =>
             projects'[p] = projects[p]
      ]_vars

\* C3: a row is Synced only if it has not been mutated locally since its
\* last pull or since the pending list of its last confirmed push was read:
\* a row mutated between the read and the mark is Pending when the push ends.
C3_SyncedOnlyIfUnmodified ==
    \A p \in ProjectIds :
        Synced(p) => projects[p].local_version = base[p]

MarkStep == ppc = "push_mark" /\ pushq' = Tail(pushq)

\* C11: when the remote rejects one record of a push, the push still submits
\* every other record of its pending list: no listed record is left
\* unsubmitted when the push returns.
C11_RestSubmitted ==
    ppc = "idle" => \A p \in ProjectIds : pushed[p] # "listed"

\* C13: the step of a push that marks a record leaves the row Synced with
\* server_version equal to the version the remote returned for it.
C13_ServerVersionRecorded ==
    [][ IF MarkStep
        THEN \A p \in ProjectIds :
                p = Head(pushq).id =>
                   /\ projects'[p].sync_status = "synced"
                   /\ projects'[p].server_version = confirmed[p]
        ELSE TRUE
      ]_vars

\* C14: a row that a push marked synced and that was not mutated locally
\* afterwards is in no later pending list, and no PUT or POST is sent for it.
C14_NoRepush ==
    /\ \A i \in DOMAIN pushq : ~clean[pushq[i].id]
    /\ ppc \in {"push_put", "push_post"} => ~clean[Head(pushq).id]

\* a later push is sending another project while a project marked by an
\* earlier push, unmutated since, is Synced and not in the list
C14_Witness ==
    /\ ppc = "push_put"
    /\ \E p \in ProjectIds :
        /\ clean[p] /\ Synced(p) /\ pushed[p] = "none"
        /\ Head(pushq).id # p

\* the request carries the deletion marker of the row
HasDeletionMarker(body) ==
    "is_deleted" \in DOMAIN body /\ body.is_deleted

\* C20: a project that was soft-deleted when the pending list was read is
\* marked Synced by the push only if the request of that push carried its
\* deletion marker.
C20_DeletionPushed ==
    [][ IF MarkStep /\ Head(pushq).row.is_deleted
        THEN HasDeletionMarker(Head(pushq).body)
        ELSE TRUE
      ]_vars

----------------------------------------------------------------------------
(* Claims about the table platform_accounts and the foreign keys *)

AccountExists(k) == accounts[k] # NoRow

\* a step of a command of the UI: no provider moves
LocalStep == ppc' = ppc /\ apc' = apc

\* C12: a local mutation of an existing row increments its local_version by
\* exactly 1 and leaves it Pending, for project rows and for account rows.
C12_MutationBumps ==
    [][ LocalStep =>
          /\ \A p \in ProjectIds :
                projects[p] # NoRow /\ projects'[p] # NoRow
                /\ projects'[p] # projects[p] =>
                   /\ projects'[p].local_version = projects[p].local_version + 1
                   /\ projects'[p].sync_status = "pending"
          /\ \A k \in AccountIds :
                accounts[k] # NoRow /\ accounts'[k] # NoRow
                /\ accounts'[k] # accounts[k] =>
                   /\ accounts'[k].local_version = accounts[k].local_version + 1
                   /\ accounts'[k].sync_status = "pending"
      ]_vars

\* no two rows of the table as have the same (project_id, platform, account_id)
UniqueTriples(as) ==
    \A j, k \in AccountIds :
        j # k /\ as[j] # NoRow /\ as[k] # NoRow => Triple(as[j]) # Triple(as[k])

C17_PlaceholderFirst ==
    [][ /\ IF apc = "pull_ensure" /\ apc' = "pull_sync"
           THEN \A p \in ProjectIds :
                   p = Head(aq).project_id =>
                      /\ users'[UserId] # NoRow
                      /\ projects'[p] # NoRow
                      /\ projects[p] = NoRow =>
                            /\ projects'[p] = PlaceholderProjectRow(UserId)
                            /\ projects'[p].sync_status = "pending"
           ELSE TRUE
        /\ IF apc = "pull_sync" /\ apc' # "pull_sync"
           THEN ParentsExist(users, projects, UserId, Head(aq).project_id)
           ELSE TRUE
      ]_vars

\* a pull has ended well and left an account row whose project is the
\* placeholder
C17_Witness ==
    /\ apc = "idle" /\ presult = Ok
    /\ \E k \in AccountIds :
        /\ AccountExists(k) /\ accounts[k].sync_status = "synced"
        /\ projects[accounts[k].project_id] = PlaceholderProjectRow(UserId)

\* C18: the user of every project row and the project and the user of
\* every account row have a row.
C18_ForeignKeys ==
    /\ \A p \in ProjectIds :
          projects[p] # NoRow => users[projects[p].user_id] # NoRow
    /\ \A k \in AccountIds :
          accounts[k] # NoRow =>
             /\ projects[accounts[k].project_id] # NoRow
             /\ users[accounts[k].user_id] # NoRow

\* two accounts, one under a project created locally and one under a
\* placeholder project
C18_Witness ==
    \E j, k \in AccountIds :
        /\ AccountExists(j) /\ AccountExists(k)
        /\ projects[accounts[j].project_id].name = "local"
        /\ projects[accounts[k].project_id] = PlaceholderProjectRow(UserId)

\* C19: no step removes a row that is Pending.
C19_PendingNeverRemoved ==
    [][ /\ \A p \in ProjectIds :
              projects[p] # NoRow /\ projects[p].sync_status = "pending" =>
                 projects'[p] # NoRow
        /\ \A k \in AccountIds :
              accounts[k] # NoRow /\ accounts[k].sync_status = "pending" =>
                 accounts'[k] # NoRow
      ]_vars

----------------------------------------------------------------------------
(* One answer of the remote applied twice by the pull of its provider.     *)
(* Here the tables carry their column updated_at, and time can pass        *)
(* between the two applications.                                           *)

\* the tables, with updated_at
Tables ==
    [users |-> users, projects |-> projects, accounts |-> accounts,
     updated_at |-> updated_at]

\* updated_at = excluded.updated_at, or the ts of the INSERT
Touch(st, id, t) == [st EXCEPT ![id] = Some(t)]

\* INSERT OR IGNORE: the ts is written only when the row is inserted
TouchIfAbsent(st, tbl, id, t) == IF tbl[id] = NoRow THEN Touch(st, id, t) ELSE st

\* UserProvider::pull on the answer u at time t
ApplyUser(tb, u, t) ==
    [tb EXCEPT !.users = sync_user(@, u.uuid, u.email, u.username,
                                   u.nickname, u.avatar),
               !.updated_at.users = Touch(@, u.uuid, t)]

RECURSIVE TouchItems(_, _, _)
\* the updated_at that the sync_project calls of a pull write
TouchItems(st, items, t) ==
    IF items = <<>> THEN st
    ELSE TouchItems(Touch(st, items[1].id, t), Tail(items), t)

\* ProjectProvider::pull on the answer items at time t
ApplyProjects(tb, items, t) ==
    [tb EXCEPT !.users = ensure_user_exists(@, UserId),
               !.updated_at.users = TouchIfAbsent(@, tb.users, UserId, t),
               !.projects = ApplyItems(@, UserId, items),
               !.updated_at.projects = TouchItems(@, items, t)]

\* one round of the loop of AccountProvider::pull at time t
ApplyAccount(tb, acc, t) ==
    LET us == ensure_user_exists(tb.users, UserId)
        ps == ensure_project_exists(tb.projects, acc.project_id, UserId)
        k == SyncAccountTarget(tb.accounts, acc.id, acc.project_id,
                               acc.platform, acc.account_id)
        written ==
            /\ ~SyncAccountFails(tb.accounts, us, ps, acc.id, UserId,
                                 acc.project_id, acc.platform, acc.account_id)
            /\ tb.accounts[k] # NoRow => tb.accounts[k].sync_status # "pending"
    IN  [users |-> us,
         projects |-> ps,
         accounts |-> sync_platform_account(tb.accounts, us, ps, acc.id, UserId,
                         acc.project_id, acc.platform, acc.account_id,
                         acc.account_name, acc.is_deleted, acc.server_version),
         updated_at |->
            [users |-> TouchIfAbsent(tb.updated_at.users, tb.users, UserId, t),
             projects |-> TouchIfAbsent(tb.updated_at.projects, tb.projects,
                                        acc.project_id, t),
             accounts |-> IF written THEN Touch(tb.updated_at.accounts, k, t)
                          ELSE tb.updated_at.accounts]]

RECURSIVE ApplyAccounts(_, _, _)
\* AccountProvider::pull on the answer items at time t
ApplyAccounts(tb, items, t) ==
    IF items = <<>> THEN tb
    ELSE ApplyAccounts(ApplyAccount(tb, items[1], t), Tail(items), t)

\* the pull of the provider of answer pl, at time t
ApplyPull(tb, pl, t) ==
    CASE pl.kind = "user" -> ApplyUser(tb, pl.user, t)
      [] pl.kind = "projects" -> ApplyProjects(tb, pl.items, t)
      [] pl.kind = "accounts" -> ApplyAccounts(tb, pl.items, t)

\* the answers that carry a record
Payloads ==
    {[kind |-> "user", user |-> RemoteUser]}
    \cup {[kind |-> "projects", items |-> l] : l \in RemoteLists \ {<<>>}}
    \cup {[kind |-> "accounts", items |-> l] : l \in RemoteAccountLists \ {<<>>}}

\* the payload is applied, for the first or for the second time
ApplyPayload ==
    /\ tpc \in {"start", "once"}
    /\ LET r == ApplyPull(Tables, payload, now)
       IN  /\ users' = r.users
           /\ projects' = r.projects
           /\ accounts' = r.accounts
           /\ updated_at' = r.updated_at
           /\ first' = IF tpc = "start" THEN r ELSE first
    /\ tpc' = IF tpc = "start" THEN "once" ELSE "twice"
    /\ UNCHANGED <<engineVars, providerVars, histVars, apc, aq, payload>>
    /\ UNCHANGED <<registry, lockVars, remote, sidecarVars>>

\* a project the UI created and edited
LocalProjectRow == NewProjectRow(UserId, "local", "about", "pending")

\* a project an earlier pull wrote
PulledProjectRow == NewProjectRow(UserId, "remote", NULL, "synced")

\* an account the UI created for project p1
LocalAccountRow ==
    NewAccountRow(UserId, "p1", Platform, ExternalId, "local", "pending",
                  DefaultServerVersion)

\* any store the program can have built before the answer arrives
PullTwiceInit ==
    /\ status = [is_syncing |-> FALSE, last_sync_time |-> None, last_error |-> None]
    /\ pc = [c \in Callers |-> "idle"]
    /\ idx = [c \in Callers |-> 1]
    /\ final_result = [c \in Callers |-> Ok]
    /\ ret = [c \in Callers |-> None]
    /\ firstErr = [c \in Callers |-> None]
    /\ log = <<>>
    /\ now = 0
    /\ \E u \in {NoRow, PlaceholderUserRow, LoginUserRow} :
          users = [x \in UserIds |->
                     IF x = "current-user" THEN DefaultUserRow ELSE u]
    /\ projects \in [ProjectIds -> {NoRow, LocalProjectRow, PulledProjectRow}]
    /\ users[UserId] = NoRow => \A p \in ProjectIds : projects[p] = NoRow
    /\ \E a \in {NoRow, LocalAccountRow} :
          accounts = [k \in AccountIds |-> IF k = "k1" THEN a ELSE NoRow]
    /\ projects["p1"] = NoRow => accounts["k1"] = NoRow
    /\ updated_at =
          [users |-> [u \in UserIds |->
                        IF users[u] = NoRow THEN None ELSE Some(0)],
           projects |-> [p \in ProjectIds |->
                           IF projects[p] = NoRow THEN None ELSE Some(0)],
           accounts |-> [k \in AccountIds |->
                           IF accounts[k] = NoRow THEN None ELSE Some(0)]]
    /\ ppc = "idle"
    /\ pullq = <<>>
    /\ pushq = <<>>
    /\ pushed = [p \in ProjectIds |-> "none"]
    /\ base = [p \in ProjectIds |-> 0]
    /\ presult = None
    /\ confirmed = [p \in ProjectIds |-> 0]
    /\ clean = [p \in ProjectIds |-> FALSE]
    /\ apc = "idle"
    /\ aq = <<>>
    /\ tpc = "start"
    /\ payload \in Payloads
    /\ first = NoRow
    /\ registry = Providers
    /\ locks = [l \in Locks |-> Free]
    /\ thr = [t \in Threads |-> IdleThread]
    /\ snapshot = None
    /\ remote = [p \in ProjectIds |-> 0]
    /\ SidecarManagerNew

PullTwiceNext ==
    \/ ApplyPayload
    \/ Tick

PullTwiceSpec == PullTwiceInit /\ [][PullTwiceNext]_vars

\* the account rows that stand for the remote record acc: the row of its id
\* and the rows of its triple
RowsOfRecord(as, acc) ==
    {k \in DOMAIN as : as[k] # NoRow /\ k = acc.id}
    \cup ConflictRows(as, acc.project_id, acc.platform, acc.account_id)

\* every record of the payload has exactly one row
OneRowPerRecord ==
    CASE payload.kind = "user" -> users[payload.user.uuid] # NoRow
      [] payload.kind = "projects" ->
            \A i \in DOMAIN payload.items : projects[payload.items[i].id] # NoRow
      [] payload.kind = "accounts" ->
            \A i \in DOMAIN payload.items :
               Cardinality(RowsOfRecord(accounts, payload.items[i])) = 1

----------------------------------------------------------------------------
(* Registration of the providers, before the engine is shared *)

\* the register_provider calls the setup makes at most
MaxRegistered == 4

\* the types that implement SyncProvider and are declared in providers/mod.rs
ProviderTypes == {"User", "Project", "PlatformAccount"}

\* self.providers.push(Box::new(provider))
register_provider(list, provider) == Append(list, provider)

\* the setup registers a provider
RegisterProvider ==
    /\ Len(registry) < MaxRegistered
    /\ \E provider \in ProviderTypes :
          registry' = register_provider(registry, provider)
    /\ UNCHANGED <<engineVars, storeVars, providerVars, histVars, accountVars,
                   twiceVars, lockVars, remote, sidecarVars>>

\* SyncEngine::new: no provider registered
RegisterInit ==
    /\ status = [is_syncing |-> FALSE, last_sync_time |-> None, last_error |-> None]
    /\ pc = [c \in Callers |-> "idle"]
    /\ idx = [c \in Callers |-> 1]
    /\ final_result = [c \in Callers |-> Ok]
    /\ ret = [c \in Callers |-> None]
    /\ firstErr = [c \in Callers |-> None]
    /\ log = <<>>
    /\ now = 0
    /\ users = [u \in UserIds |->
                 IF u = "current-user" THEN DefaultUserRow ELSE NoRow]
    /\ projects = [p \in ProjectIds |-> NoRow]
    /\ ppc = "idle"
    /\ pullq = <<>>
    /\ pushq = <<>>
    /\ pushed = [p \in ProjectIds |-> "none"]
    /\ base = [p \in ProjectIds |-> 0]
    /\ presult = None
    /\ confirmed = [p \in ProjectIds |-> 0]
    /\ clean = [p \in ProjectIds |-> FALSE]
    /\ accounts = [k \in AccountIds |-> NoRow]
    /\ apc = "idle"
    /\ aq = <<>>
    /\ updated_at = [users |-> [u \in UserIds |-> None],
                     projects |-> [p \in ProjectIds |-> None],
                     accounts |-> [k \in AccountIds |-> None]]
    /\ tpc = "off"
    /\ payload = NoRow
    /\ first = NoRow
    /\ registry = <<>>
    /\ locks = [l \in Locks |-> Free]
    /\ thr = [t \in Threads |-> IdleThread]
    /\ snapshot = None
    /\ remote = [p \in ProjectIds |-> 0]
    /\ SidecarManagerNew

RegisterNext == RegisterProvider

RegisterSpec == RegisterInit /\ [][RegisterNext]_vars

\* the pull and push calls of a pass over the provider list, in order
PassCalls(list) ==
    [i \in 1..(2 * Len(list)) |->
        IF i % 2 = 1 THEN <<"pull", list[(i + 1) \div 2]>>
        ELSE <<"push", list[i \div 2]>>]

\* C21: whatever register_provider calls were made, the provider list has
\* at most one entry of every type, and a pass over the list calls the pull
\* and the push of every type at most once.
C21_RegisterIdempotent ==
    \A n \in ProviderTypes :
        /\ Cardinality({i \in DOMAIN registry : registry[i] = n}) <= 1
        /\ \A kind \in {"pull", "push"} :
              Cardinality({i \in DOMAIN PassCalls(registry) :
                              PassCalls(registry)[i] = <<kind, n>>}) <= 1

----------------------------------------------------------------------------
(* The mutexes.  Every operation is the sequence of its lock, unlock,      *)
(* store, network and status steps; a thread runs one operation at a time, *)
(* a step at a time, and a lock step waits until the mutex is free.        *)

Lock(l) == [kind |-> "lock", lock |-> l]
Unlock(l) == [kind |-> "unlock", lock |-> l]
Do(kind) == [kind |-> kind, lock |-> "none"]

\* let conn = self.conn.lock().unwrap(); conn.execute(...); the guard is
\* dropped at the end of the function or of its block
RepoOp == <<Lock("conn"), Do("store"), Unlock("conn")>>

EnsureUserExistsProg == RepoOp

\* (mutant) ensure_user_exists is called with the connection locked
EnsureProjectExistsProgNested ==
    <<Lock("conn")>> \o EnsureUserExistsProg \o <<Do("store"), Unlock("conn")>>

\* self.ensure_user_exists(user_id)?; let conn = self.conn.lock().unwrap(); ...
EnsureProjectExistsProg == EnsureUserExistsProg \o RepoOp

\* { let conn = ...; conn.execute(INSERT ...)?; } self.get_project(&id)
CreateProjectProg == RepoOp \o RepoOp

\* { let conn = ...; INSERT ... RETURNING id } self.get_platform_account(..)
CreateAccountProg == RepoOp \o RepoOp

\* { let conn = ...; conn.execute_batch(schema)?; } self.ensure_default_user()?
InitSchemaProg == RepoOp \o RepoOp

\* a db_* command: let db = state.lock()...; repo.<operation>(..); the
\* DbState guard is dropped when the command returns
DbCommandProg(prog) == <<Lock("db_state")>> \o prog \o <<Unlock("db_state")>>

\* (mutant) the guard of start_sync is not a block: the status lock is kept
GuardProgNoRelease == <<Lock("status"), Do("guard")>>

\* { let mut status = self.status.lock().unwrap(); if status.is_syncing
\* { return Ok(()); } status.is_syncing = true; status.last_error = None; }
GuardProg == <<Lock("status"), Do("guard"), Unlock("status")>>

\* { let mut status = self.status.lock().unwrap(); status.is_syncing = false; .. }
FinalProg == <<Lock("status"), Do("final"), Unlock("status")>>

\* self.status.lock().unwrap().clone()
GetStatusProg == <<Lock("status"), Do("read"), Unlock("status")>>

\* provider.pull(...).await
PullProg(name) ==
    CASE name = "User" -> <<Do("await")>> \o RepoOp
      [] name = "Project" -> EnsureUserExistsProg \o <<Do("await")>> \o RepoOp
      [] name = "PlatformAccount" ->
            EnsureUserExistsProg \o <<Do("await")>>
            \o EnsureProjectExistsProg \o RepoOp

\* provider.push(...).await: the pending list, the request, the mark
PushProg(name) ==
    CASE name = "User" -> <<>>
      [] name = "Project" -> RepoOp \o <<Do("await")>> \o RepoOp
      [] name = "PlatformAccount" -> RepoOp \o <<Do("await")>> \o RepoOp

RECURSIVE LoopProg(_)
\* for provider in &self.providers { pull; push }
LoopProg(list) ==
    IF list = <<>> THEN <<>>
    ELSE PullProg(Head(list)) \o PushProg(Head(list)) \o LoopProg(Tail(list))

StartSyncProg == GuardProg \o LoopProg(Providers) \o FinalProg

\* the steps of operation op
Program(op) ==
    CASE op = "start_sync" -> StartSyncProg
      [] op = "start_sync_suppressed" -> GuardProg
      [] op = "get_status" -> GetStatusProg
      [] op = "db_create_project" -> DbCommandProg(CreateProjectProg)
      [] op = "db_create_platform_account" ->
            DbCommandProg(EnsureProjectExistsProg \o CreateAccountProg)
      [] op = "init_schema" -> InitSchemaProg

\* the operations a thread runs
ThreadOps(t) ==
    CASE t \in {"pass", "pass2"} -> {"start_sync"}
      [] t = "reader" -> {"get_status"}
      [] t = "ui" -> {"db_create_project", "db_create_platform_account",
                      "init_schema"}

Running(t) == thr[t].op # "idle"

\* the step thread t takes next
Instr(t) == Program(thr[t].op)[thr[t].at]

\* thread t after the step it is at
Advance(t) ==
    IF thr[t].at < Len(Program(thr[t].op))
    THEN [thr EXCEPT ![t].at = @ + 1]
    ELSE [thr EXCEPT ![t] = IdleThread]

\* everything the mutex model does not follow
LockFrame ==
    UNCHANGED <<pc, idx, final_result, ret, firstErr, log, now, storeVars,
                providerVars, histVars, accountVars, twiceVars, registry, remote, sidecarVars>>

\* a command or a task starts
Begin(t) ==
    /\ ~Running(t)
    /\ \E op \in ThreadOps(t) : thr' = [thr EXCEPT ![t] = [op |-> op, at |-> 1]]
    /\ UNCHANGED <<status, locks, snapshot>>
    /\ LockFrame

\* mutex.lock() returns
Acquire(t) ==
    /\ Running(t) /\ Instr(t).kind = "lock"
    /\ locks[Instr(t).lock] = Free
    /\ locks' = [locks EXCEPT ![Instr(t).lock] = t]
    /\ thr' = Advance(t)
    /\ UNCHANGED <<status, snapshot>>
    /\ LockFrame

\* the guard of the mutex is dropped
Release(t) ==
    /\ Running(t) /\ Instr(t).kind = "unlock"
    /\ locks' = [locks EXCEPT ![Instr(t).lock] = Free]
    /\ thr' = Advance(t)
    /\ UNCHANGED <<status, snapshot>>
    /\ LockFrame

\* the guard of start_sync: a call that finds a pass in flight returns
\* after dropping the guard
GuardStep(t) ==
    /\ Running(t) /\ Instr(t).kind = "guard"
    /\ IF GuardBusy(status)
       THEN /\ status' = SuppressedStatus(status)
            /\ thr' = [thr EXCEPT ![t] = [op |-> "start_sync_suppressed",
                                          at |-> thr[t].at + 1]]
       ELSE /\ status' = GuardStatus(status)
            /\ thr' = Advance(t)
    /\ UNCHANGED <<locks, snapshot>>
    /\ LockFrame

\* the final update of start_sync
FinalStep(t) ==
    /\ Running(t) /\ Instr(t).kind = "final"
    /\ \E fr \in {Ok, Err("e")} : status' = FinishStatus(status, fr, now)
    /\ thr' = Advance(t)
    /\ UNCHANGED <<locks, snapshot>>
    /\ LockFrame

\* a statement on the connection
StoreStep(t) ==
    /\ Running(t) /\ Instr(t).kind = "store"
    /\ thr' = Advance(t)
    /\ UNCHANGED <<status, locks, snapshot>>
    /\ LockFrame

\* a request to the remote returns
AwaitStep(t) ==
    /\ Running(t) /\ Instr(t).kind = "await"
    /\ thr' = Advance(t)
    /\ UNCHANGED <<status, locks, snapshot>>
    /\ LockFrame

\* get_status clones the status record
ReadStep(t) ==
    /\ Running(t) /\ Instr(t).kind = "read"
    /\ snapshot' = Some(status)
    /\ thr' = Advance(t)
    /\ UNCHANGED <<status, locks>>
    /\ LockFrame

LockNext ==
    \/ \E t \in Threads : Begin(t)
    \/ \E t \in Threads : Acquire(t)
    \/ \E t \in Threads : Release(t)
    \/ \E t \in Threads : GuardStep(t)
    \/ \E t \in Threads : FinalStep(t)
    \/ \E t \in Threads : StoreStep(t)
    \/ \E t \in Threads : AwaitStep(t)
    \/ \E t \in Threads : ReadStep(t)

LockSpec == StoreInit /\ [][LockNext]_vars

\* thread t is in a pass: past the guard and not yet in the final update
InFlight(t) ==
    /\ thr[t].op = "start_sync"
    /\ thr[t].at > Len(GuardProg)
    /\ thr[t].at <= Len(StartSyncProg) - Len(FinalProg) + 1

\* C22: the thread that holds the status lock is never at a request to the
\* remote, at a statement on the store or at another lock, so the lock is
\* free again after the guard or the final update alone; and a get_status
\* that reads while a pass is in flight returns is_syncing = true.
C22_StatusNeverHeldAcrossCalls ==
    [][ /\ \A t \in Threads :
              locks'["status"] = t =>
                 thr'[t].op # "idle"
                 /\ Program(thr'[t].op)[thr'[t].at].kind
                       \in {"guard", "final", "read", "unlock"}
        /\ \A r \in Threads :
              Running(r) /\ Instr(r).kind = "read" /\ snapshot' # snapshot
              /\ (\E t \in Threads : InFlight(t)) =>
                 snapshot'[2].is_syncing
      ]_vars

\* get_status has returned is_syncing = true while the pass waits for the
\* remote
C22_Witness ==
    /\ snapshot # None /\ snapshot[2].is_syncing
    /\ ~Running("reader")
    /\ Running("pass") /\ Instr("pass").kind = "await"

\* thread t is at a lock step and the mutex is taken
Waiting(t) ==
    Running(t) /\ Instr(t).kind = "lock" /\ locks[Instr(t).lock] # Free

RECURSIVE CanRun(_, _)
\* the threads that can take a step, now or once the threads of set done,
\* which can, have released what they hold; n rounds
CanRun(done, n) ==
    IF n = 0 THEN done
    ELSE CanRun(done \cup {t \in Threads :
                              Waiting(t) /\ locks[Instr(t).lock] \in done},
                n - 1)

\* C23: in every state every thread either can take a step or waits for a
\* mutex whose holder, directly or through other waiting threads, can; no
\* thread holds the status lock together with another lock, and no thread
\* waits for a mutex it holds.
C23_NoDeadlock ==
    /\ CanRun({t \in Threads : ~Waiting(t)}, Cardinality(Threads)) = Threads
    /\ \A t \in Threads :
          /\ locks["status"] = t => locks["conn"] # t /\ locks["db_state"] # t
          /\ Waiting(t) => locks[Instr(t).lock] # t

\* the command of the UI holds DbState and waits for the connection, which
\* the pass holds, while get_status waits for the status lock, which the
\* second start_sync call holds
C23_Witness ==
    /\ Waiting("ui") /\ locks["db_state"] = "ui" /\ locks["conn"] = "pass"
    /\ Waiting("reader") /\ locks["status"] = "pass2"

----------------------------------------------------------------------------
(* Passes after a failed push.  The store holds two pending projects; the  *)
(* last pass listed Favoured first and the remote rejected it.  From here  *)
(* on the remote accepts Favoured whenever it is submitted and the UI      *)
(* edits only the other project; passes follow one another.                *)

Favoured == "p2"

\* a pending row written by create_project
RetryRow == create_project([p \in ProjectIds |-> NoRow], Favoured, UserId, "local", NULL)[Favoured]

\* the end of a pass whose push stopped at the rejected POST of Favoured
RetryInit ==
    /\ status = [is_syncing |-> FALSE, last_sync_time |-> None, last_error |-> None]
    /\ pc = [c \in Callers |-> "idle"]
    /\ idx = [c \in Callers |-> 1]
    /\ final_result = [c \in Callers |-> Ok]
    /\ ret = [c \in Callers |-> None]
    /\ firstErr = [c \in Callers |-> None]
    /\ log = <<>>
    /\ now = 0
    /\ users = ensure_user_exists([u \in UserIds |->
                 IF u = "current-user" THEN DefaultUserRow ELSE NoRow], UserId)
    /\ projects = [p \in ProjectIds |-> RetryRow]
    /\ ppc = "idle"
    /\ pullq = <<>>
    /\ pushq \in {[i \in DOMAIN order |->
                     [id |-> order[i], local_version |-> RetryRow.local_version,
                      row |-> RetryRow, body |-> PushBody(order[i], RetryRow)]] :
                  order \in {o \in Orders(ProjectIds) : o[1] = Favoured}}
    /\ pushed = [p \in ProjectIds |-> IF p = Favoured THEN "rejected" ELSE "listed"]
    /\ base = [p \in ProjectIds |-> 0]
    /\ presult = Err("e")
    /\ confirmed = [p \in ProjectIds |-> 0]
    /\ clean = [p \in ProjectIds |-> FALSE]
    /\ accounts = [k \in AccountIds |-> NoRow]
    /\ apc = "idle"
    /\ aq = <<>>
    /\ updated_at = [users |-> [u \in UserIds |-> None],
                     projects |-> [p \in ProjectIds |-> None],
                     accounts |-> [k \in AccountIds |-> None]]
    /\ tpc = "off"
    /\ payload = NoRow
    /\ first = NoRow
    /\ registry = Providers
    /\ locks = [l \in Locks |-> Free]
    /\ thr = [t \in Threads |-> IdleThread]
    /\ snapshot = None
    /\ remote = [p \in ProjectIds |-> 0]
    /\ SidecarManagerNew

\* the PUT returns; the remote accepts Favoured
RetryPut ==
    /\ ProjPushPut
    /\ Head(pushq).id = Favoured => ppc' = "push_mark"

\* an edit of the UI, of another project than Favoured
RetryEdit ==
    /\ UpdateProject
    /\ projects'[Favoured] = projects[Favoured]

\* a step of a pass
RetryPass ==
    \/ ProjPullBegin
    \/ ProjPullGet
    \/ ProjPullApply
    \/ ProjPushList
    \/ RetryPut
    \/ ProjPushPost
    \/ ProjPushMark

RetryNext ==
    \/ RetryPass
    \/ RetryEdit

\* passes follow one another and each runs to its end
RetrySpec == RetryInit /\ [][RetryNext]_vars /\ WF_vars(RetryPass)

\* C24: a record whose push failed is Pending at the end of the pass, and
\* when the remote accepts it whenever it is submitted and it is not
\* edited again, repeated passes eventually make it Synced.
C24_EventuallySynced ==
    (ppc = "idle" /\ Pending(Favoured) /\ pushed[Favoured] = "rejected")
        ~> Synced(Favoured)

----------------------------------------------------------------------------
(* The upserts of a pull, applied once to a row and an incoming record     *)
(* drawn from every combination of empty and populated columns.            *)

UserColumns == {"email", "username", "nickname", "avatar"}
MergedProject == "p1"

\* rows a table can hold before the upsert
LocalUserRows == {NoRow} \cup [UserColumns -> {NULL, "old"}]
LocalProjectRows ==
    {NoRow} \cup
    {[NewProjectRow(UserId, "old", d, st) EXCEPT !.local_version = v] :
        d \in {NULL, "old"}, st \in {"pending", "synced"}, v \in 1..MaxVersion}

\* the arguments of the upsert calls: Option<&str> columns, and name: &str
IncomingUsers == [UserColumns -> {NULL, "new"}]
IncomingProjects == [name : {"new"}, description : {NULL, "new"}]

MergeInit ==
    /\ status = [is_syncing |-> FALSE, last_sync_time |-> None, last_error |-> None]
    /\ pc = [c \in Callers |-> "idle"]
    /\ idx = [c \in Callers |-> 1]
    /\ final_result = [c \in Callers |-> Ok]
    /\ ret = [c \in Callers |-> None]
    /\ firstErr = [c \in Callers |-> None]
    /\ log = <<>>
    /\ now = 0
    /\ \E row \in LocalUserRows :
          users = [u \in UserIds |->
                     CASE u = UserId -> row
                       [] u = "current-user" -> DefaultUserRow]
    /\ \E row \in LocalProjectRows :
          projects = [p \in ProjectIds |-> IF p = MergedProject THEN row ELSE NoRow]
    /\ ppc = "idle"
    /\ pullq = <<>>
    /\ pushq = <<>>
    /\ pushed = [p \in ProjectIds |-> "none"]
    /\ base = [p \in ProjectIds |-> 0]
    /\ presult = None
    /\ confirmed = [p \in ProjectIds |-> 0]
    /\ clean = [p \in ProjectIds |-> FALSE]
    /\ accounts = [k \in AccountIds |-> NoRow]
    /\ apc = "idle"
    /\ aq = <<>>
    /\ updated_at = [users |-> [u \in UserIds |-> None],
                     projects |-> [p \in ProjectIds |-> None],
                     accounts |-> [k \in AccountIds |-> None]]
    /\ tpc = "merge"
    /\ payload \in [user : IncomingUsers, project : IncomingProjects]
    /\ first = [user |-> users[UserId], project |-> projects[MergedProject]]
    /\ registry = Providers
    /\ locks = [l \in Locks |-> Free]
    /\ thr = [t \in Threads |-> IdleThread]
    /\ snapshot = None
    /\ remote = [p \in ProjectIds |-> 0]
    /\ SidecarManagerNew

\* repo.sync_user(&user_id, email, username, nickname, avatar)
MergeUser ==
    /\ tpc \in {"merge", "project_done"}
    /\ users' = sync_user(users, UserId, payload.user.email, payload.user.username,
                          payload.user.nickname, payload.user.avatar)
    /\ tpc' = IF tpc = "merge" THEN "user_done" ELSE "done"
    /\ UNCHANGED <<engineVars, projects, providerVars, histVars, accountVars,
                   updated_at, payload, first, registry, lockVars, remote, sidecarVars>>

\* repo.sync_project(&project_id, &user_id, &name, description, None)
MergeProject ==
    /\ tpc \in {"merge", "user_done"}
    /\ projects' = sync_project(projects, MergedProject, UserId,
                                payload.project.name, payload.project.description)
    /\ tpc' = IF tpc = "merge" THEN "project_done" ELSE "done"
    /\ UNCHANGED <<engineVars, users, providerVars, histVars, accountVars,
                   updated_at, payload, first, registry, lockVars, remote, sidecarVars>>

MergeNext ==
    \/ MergeUser
    \/ MergeProject

MergeSpec == MergeInit /\ [][MergeNext]_vars

\* the column after the upsert of incoming over the row before
Merged(before, incoming, column) ==
    IF incoming[column] # NULL THEN incoming[column]
    ELSE IF before = NoRow THEN NULL ELSE before[column]

C26_PullRecordsVersion ==
    [][IF ppc = "pull_apply" /\ pullq' # pullq
       THEN \A p \in ProjectIds :
               p = Head(pullq).id /\ ~Pending(p) =>
                  /\ projects'[p].sync_status = "synced"
                  /\ projects'[p].server_version \in RemoteVersions
                  /\ projects'[p].synced_at = Some(now)
       ELSE TRUE]_vars

----------------------------------------------------------------------------
(* The push of the project provider against a remote that keeps records.   *)
(* remote[p] counts the records the remote holds for project p.  A PUT     *)
(* updates the record when there is one and the request gets through; a    *)
(* POST is the create call: the remote may refuse an id it holds already,  *)
(* or create another record.                                               *)

MaxRecords == 2

\* client.put("/projects/{id}").await returns: Err on a network error, a
\* time-out or a status that is not 2xx, whether the record exists or not
RemotePut ==
    /\ ppc = "push_put"
    /\ \E fault \in BOOLEAN, v \in RemoteVersions :
        IF remote[Head(pushq).id] >= 1 /\ ~fault
        THEN /\ ppc' = "push_mark"
             /\ pushed' = [pushed EXCEPT ![Head(pushq).id] = "accepted"]
             /\ confirmed' = [confirmed EXCEPT ![Head(pushq).id] = v]
        ELSE /\ ppc' = "push_post"
             /\ UNCHANGED <<pushed, confirmed>>
    /\ UNCHANGED <<engineVars, storeVars, pullq, pushq, base, presult, clean,
                   accountVars, twiceVars, registry, lockVars, remote, sidecarVars>>

\* client.post("/projects").await returns: the remote has created a record
\* or not, and the answer is the record, an error (also when the answer to
\* a create is lost) or a record with another id
RemotePost ==
    /\ ppc = "push_post"
    /\ \E outcome \in {"ok", "err", "mismatch"}, created \in BOOLEAN,
          v \in RemoteVersions :
        /\ created => remote[Head(pushq).id] < MaxRecords /\ outcome # "mismatch"
        /\ outcome = "ok" => created \/ remote[Head(pushq).id] >= 1
        /\ remote' = [remote EXCEPT ![Head(pushq).id] = IF created THEN @ + 1 ELSE @]
        /\ UNCHANGED sidecarVars
        /\ ppc' = AfterPost(outcome)
        /\ confirmed' = [confirmed EXCEPT ![Head(pushq).id] =
                           IF outcome = "ok" THEN v ELSE @]
        /\ pushed' = [pushed EXCEPT ![Head(pushq).id] =
                        CASE outcome = "ok" -> "accepted"
                          [] outcome = "err" -> "rejected"
                          [] outcome = "mismatch" -> "mismatch"]
        /\ presult' = IF AfterPost(outcome) = "idle" THEN Err("e") ELSE presult
    /\ UNCHANGED <<engineVars, storeVars, pullq, pushq, base, clean, accountVars,
                   twiceVars, registry, lockVars>>

\* repo.mark_project_synced(&p.id) returns Err and push returns it
MarkFails ==
    /\ ppc = "push_mark"
    /\ ppc' = "idle"
    /\ presult' = Err("e")
    /\ UNCHANGED <<engineVars, storeVars, pullq, pushq, pushed, base, histVars,
                   accountVars, twiceVars, registry, lockVars, remote, sidecarVars>>

RemoteNext ==
    \/ ProjPullBegin
    \/ ProjPullGet
    \/ ProjPullApply
    \/ ProjPushList
    \/ RemotePut
    \/ RemotePost
    \/ ProjPushMark
    \/ MarkFails
    \/ CreateProject
    \/ UpdateProject

RemoteSpec == StoreInit /\ [][RemoteNext]_vars

\* C27: whatever is submitted, and however often, the remote never holds
\* two records for one project id.
C27_NoDuplicateRemote == \A p \in ProjectIds : remote[p] <= 1

\* C28: a row that a local create has just inserted, a project row or an
\* account row of a new triple, has local_version 1 and sync_status
\* pending.
C28_CreatedRowPendingV1 ==
    [][LocalStep =>
          /\ \A p \in ProjectIds :
                ~Exists(p) /\ projects'[p] # NoRow =>
                   /\ projects'[p].local_version = 1
                   /\ projects'[p].sync_status = "pending"
          /\ \A k \in AccountIds :
                accounts[k] = NoRow /\ accounts'[k] # NoRow =>
                   /\ accounts'[k].local_version = 1
                   /\ accounts'[k].sync_status = "pending"
      ]_vars

\* create_project and create_platform_account have each inserted a row
C28_Witness ==
    /\ \E p \in ProjectIds :
          /\ Exists(p) /\ projects[p].name = "local"
          /\ projects[p].local_version = 1 /\ Pending(p)
    /\ \E k \in AccountIds :
          /\ accounts[k] # NoRow
          /\ accounts[k].local_version = 1 /\ accounts[k].sync_status = "pending"
    /\ apc = "idle"

\* the columns of a project row that a push confirmation may change
ConfirmationColumns == {"server_version", "synced_at", "sync_status"}

\* project p was created, pushed with the remote's confirmation and marked
\* by the pass that has just ended, and not touched since
CreatedAndPushed(p) ==
    /\ ppc = "idle" /\ pushed[p] = "marked" /\ clean[p]
    /\ Synced(p) /\ projects[p].local_version = 1

\* C29: for create, confirmed push, local edit: the confirmation changes
\* only server_version, synced_at and sync_status, and the edit that
\* follows leaves server_version at the confirmed value, makes
\* local_version 2 and the row Pending.
C29_CreatePushEdit ==
    [][/\ IF MarkStep
          THEN \A p \in ProjectIds :
                  p = Head(pushq).id /\ Exists(p) =>
                     \A c \in DOMAIN projects[p] \ ConfirmationColumns :
                        projects'[p][c] = projects[p][c]
          ELSE TRUE
       /\ \A p \in ProjectIds :
             CreatedAndPushed(p) /\ projects'[p] # projects[p] =>
                /\ projects'[p].local_version = 2
                /\ projects'[p].sync_status = "pending"
                /\ projects'[p].server_version = projects[p].server_version
                /\ projects'[p].server_version = confirmed[p]
      ]_vars

\* C30: every row, of a project or of an account, has sync_status pending
\* or synced; no row is ever in conflict.
C30_NeverConflict ==
    /\ \A p \in ProjectIds :
          Exists(p) => projects[p].sync_status \in {"pending", "synced"}
    /\ \A k \in AccountIds :
          accounts[k] # NoRow => accounts[k].sync_status \in {"pending", "synced"}

\* a pull has been applied over a project that was edited locally and not
\* pushed since, while another project is pending
C30_Witness ==
    \E p, q \in ProjectIds :
       /\ Synced(p) /\ projects[p].local_version > 1 /\ ~clean[p]
       /\ projects[p].name = "remote"
       /\ Pending(q)

----------------------------------------------------------------------------
(* Claims about the status record and the events of the command *)

\* C32: is_syncing is true exactly while a call is between the guard and
\* its final update, last_error is None all that time, and is_syncing is
\* false when no call is in a pass.
C32_SyncingWhileInPass ==
    /\ status.is_syncing <=> \E c \in Callers : InPass(c)
    /\ (\E c \in Callers : InPass(c)) => status.last_error = None

\* a pass in which a provider call has failed is in flight, the other call
\* was suppressed, and the status shows no error yet
C32_Witness ==
    \E c, d \in Callers :
       /\ pc[c] = "in_push" /\ pc[d] = "returned" /\ firstErr[c] # None
       /\ status.is_syncing /\ status.last_error = None

\* the step is the final update of call c
FinalUpdate(c) == pc[c] = "final" /\ pc'[c] = "returned"

\* C37: last_sync_time changes only in the final update of a pass in which
\* no provider call failed, to the time of that update, and never to an
\* earlier time; a pass with a failed call and a suppressed call leave it.
C37_LastSyncTimeFrame ==
    [][status'.last_sync_time # status.last_sync_time =>
          \E c \in Callers :
             /\ FinalUpdate(c) /\ firstErr[c] = None
             /\ status'.last_sync_time = Some(now)
             /\ status.last_sync_time # None => status.last_sync_time[2] <= now
      ]_vars

\* a pass failed after a pass that succeeded: the time of the first is kept
C37_Witness ==
    /\ ~status.is_syncing
    /\ status.last_sync_time # None /\ status.last_error # None

\* C38: the task of a start_sync command emits sync-complete only for a
\* pass that ran to its end with no provider error, and never while a pass
\* is in flight.
C38_CompleteAfterPass ==
    [][\A c \in Callers :
          pc[c] = "returned" /\ pc'[c] = "idle"
          /\ SyncEvent(ret[c]) = "sync-complete" =>
             /\ firstErr[c] = None
             /\ ~\E d \in Callers : InPass(d)
      ]_vars

\* C34: ensure_user_exists and ensure_project_exists for an id that has a
\* row leave the table as it is, neither changes a row that is there,
\* calling either twice gives the table that calling it once gives, and
\* the step of the account pull that calls
\* ensure_project_exists for a project that is there changes no row of any
\* table.
C34_EnsureInsertOrIgnore ==
    [][/\ \A u \in UserIds :
             /\ users[u] # NoRow => ensure_user_exists(users, u) = users
             /\ \A v \in UserIds :
                   users[v] # NoRow => ensure_user_exists(users, u)[v] = users[v]
             /\ ensure_user_exists(ensure_user_exists(users, u), u)
                   = ensure_user_exists(users, u)
       /\ \A p \in ProjectIds, u \in UserIds :
             /\ Exists(p) => ensure_project_exists(projects, p, u) = projects
             /\ ensure_project_exists(ensure_project_exists(projects, p, u), p, u)
                   = ensure_project_exists(projects, p, u)
       /\ IF apc = "pull_ensure" /\ apc' = "pull_sync"
          THEN \A p \in ProjectIds :
                  p = Head(aq).project_id /\ Exists(p) =>
                     users' = users /\ projects' = projects /\ accounts' = accounts
          ELSE TRUE
      ]_vars

\* the account pull has called ensure_project_exists for a project that the
\* UI created, and the row is as create_project wrote it
C34_Witness ==
    /\ apc = "pull_sync"
    /\ \E p \in ProjectIds :
          /\ p = Head(aq).project_id
          /\ projects[p] = create_project(projects, p, UserId, "local", NULL)[p]

----------------------------------------------------------------------------
(* The Project provider and the Account provider together.  The engine     *)
(* runs one provider call at a time; a pull or a push of one provider      *)
(* starts when the other provider is not running.                          *)

\* Repository::list_pending_platform_accounts: the ids of the user's pending
\* account rows
list_pending_platform_accounts(as, user_id) ==
    {k \in AccountIds : as[k] # NoRow /\ as[k].user_id = user_id
                        /\ as[k].sync_status = "pending"}

\* Repository::mark_platform_account_synced(id, server_version)
mark_platform_account_synced(as, id, server_version) ==
    IF as[id] = NoRow THEN as
    ELSE [as EXCEPT ![id] = [@ EXCEPT !.sync_status = "synced",
                                      !.server_version = server_version]]

\* what POST /projects/{id}/accounts/sync answers in resp.data
ApiAccountResponses ==
    [id : AccountIds, project_id : ProjectIds, server_version : RemoteVersions]

\* (mutant) the identifiers of the answer are not compared
IdsMatchAny(resp, acc) == TRUE

\* resp.data.id == acc.id and resp.data.project_id == acc.project_id
IdsMatch(resp, acc) == resp.id = acc.id /\ resp.project_id = acc.project_id

\* the engine calls push of the account provider:
\* repo.list_pending_platform_accounts(user_id)
AccPushList ==
    /\ apc = "idle" /\ ppc = "idle"
    /\ \E order \in Orders(list_pending_platform_accounts(accounts, UserId)) :
        /\ order # <<>>
        /\ aq' = [i \in DOMAIN order |->
                    [id |-> order[i], project_id |-> accounts[order[i]].project_id]]
    /\ apc' = "push_post"
    /\ presult' = None
    /\ payload' = NoRow
    /\ UNCHANGED <<engineVars, storeVars, ppc, pullq, pushq, pushed, base,
                   histVars, accounts, updated_at, tpc, first, registry,
                   lockVars, remote, sidecarVars>>

\* client.post(&path, &body, ..).await? returns, then the two id checks
AccPushPost ==
    /\ apc = "push_post"
    /\ \E ok \in BOOLEAN, resp \in ApiAccountResponses :
        IF ok
        THEN /\ payload' = resp
             /\ IF IdsMatch(resp, Head(aq))
                THEN apc' = "push_mark" /\ UNCHANGED presult
                ELSE apc' = "idle" /\ presult' = Err("mismatch")
        ELSE /\ payload' = NoRow
             /\ apc' = "idle"
             /\ presult' = Err("e")
    /\ UNCHANGED <<engineVars, storeVars, ppc, pullq, pushq, pushed, base,
                   histVars, accounts, aq, updated_at, tpc, first, registry,
                   lockVars, remote, sidecarVars>>

\* repo.mark_platform_account_synced(&acc.id, resp.data.server_version), and
\* the loop goes on
AccPushMark ==
    /\ apc = "push_mark"
    /\ accounts' = mark_platform_account_synced(accounts, Head(aq).id,
                                                payload.server_version)
    /\ aq' = Tail(aq)
    /\ apc' = IF Tail(aq) = <<>> THEN "idle" ELSE "push_post"
    /\ presult' = IF Tail(aq) = <<>> THEN Ok ELSE presult
    /\ payload' = NoRow
    /\ UNCHANGED <<engineVars, storeVars, ppc, pullq, pushq, pushed, base,
                   histVars, updated_at, tpc, first, registry, lockVars, remote, sidecarVars>>

\* the engine calls pull of the project provider
SyncProjectPass == apc = "idle" /\ ProjPullBegin

\* project passes and account pushes, with the command that creates
\* accounts: a project row is a placeholder or comes from a pull
SyncNext ==
    \/ SyncProjectPass
    \/ ProjPullGet
    \/ ProjPullApply
    \/ ProjPushList
    \/ ProjPushPut
    \/ ProjPushPost
    \/ ProjPushMark
    \/ AccPushList
    \/ AccPushPost
    \/ AccPushMark
    \/ CreateAccount

SyncSpec == StoreInit /\ [][SyncNext]_vars

\* the account provider and the account commands
AccountSyncNext ==
    \/ AccountNext
    \/ AccPushList
    \/ AccPushPost
    \/ AccPushMark

AccountSyncSpec == StoreInit /\ [][AccountSyncNext]_vars

----------------------------------------------------------------------------
(* Claims about row ids, placeholders and push confirmations *)

C33_PlaceholderOverwritten ==
    [][IF ppc = "pull_apply" /\ pullq' # pullq
       THEN \A p \in ProjectIds :
               p = Head(pullq).id /\ Exists(p)
               /\ projects[p].name = PlaceholderProjectRow(UserId).name =>
                  /\ projects'[p].name = Head(pullq).name
                  /\ projects'[p].sync_status = "synced"
       ELSE TRUE]_vars

\* a project that was pending, which in this specification only a
\* placeholder is, and was pushed, has the remote name after a pull
C33_Witness ==
    \E p \in ProjectIds :
       /\ Synced(p) /\ projects[p].name = ApiProject(p).name
       /\ projects[p].synced_at # None
       /\ \E k \in AccountIds : accounts[k] # NoRow /\ accounts[k].project_id = p

\* C35: no PUT or POST of the project push carries the contents of a
\* placeholder.
C35_PlaceholderNeverPushed ==
    ppc \in {"push_put", "push_post"} =>
       Head(pushq).body.name # PlaceholderProjectRow(UserId).name

\* C36: an answer of the account push whose id or project_id differs from
\* the record's, and an answer of the fallback POST of the project push
\* with another id, end the push with Err and leave every row as it is,
\* the record Pending; a record is marked only after an answer with its
\* own identifiers.
C36_MismatchIsError ==
    [][/\ IF apc = "push_post" /\ apc' # apc /\ payload' # NoRow
          THEN \A k \in AccountIds :
                  k = Head(aq).id
                  /\ (payload'.id # k \/ payload'.project_id # Head(aq).project_id) =>
                     /\ apc' = "idle" /\ ~is_ok(presult') /\ presult' # None
                     /\ accounts' = accounts
                     /\ accounts[k] # NoRow => accounts[k].sync_status = "pending"
          ELSE TRUE
       /\ IF apc = "push_mark" /\ apc' # apc
          THEN payload.id = Head(aq).id /\ payload.project_id = Head(aq).project_id
          ELSE TRUE
       /\ IF ppc = "push_post" /\ ppc' # ppc
          THEN \A p \in ProjectIds :
                  p = Head(pushq).id /\ pushed'[p] = "mismatch" =>
                     /\ ppc' = "idle" /\ ~is_ok(presult') /\ presult' # None
                     /\ projects' = projects /\ Pending(p)
          ELSE TRUE
      ]_vars

\* the project push has ended at a POST answered with another id and the
\* account push at an answer with other identifiers; both records are
\* pending
C36_Witness ==
    /\ \E p \in ProjectIds : pushed[p] = "mismatch" /\ Pending(p) /\ ppc = "idle"
    /\ apc = "idle" /\ presult = Err("mismatch") /\ payload # NoRow
    /\ aq # <<>> /\ accounts[Head(aq).id] # NoRow
    /\ accounts[Head(aq).id].sync_status = "pending"
    /\ ~IdsMatch(payload, Head(aq))

----------------------------------------------------------------------------
(* The default project of a user *)

\* the rows the UPDATE of set_default_project writes
ListedProjects(ps, user_id) ==
    {p \in DOMAIN ps :
        ps[p] # NoRow /\ ps[p].user_id = user_id /\ ~ps[p].is_deleted}

\* db_set_default_project, for any id: of a row, of a deleted row, of no row
SetDefaultProject ==
    /\ \E id \in ProjectIds :
        /\ \A p \in ListedProjects(projects, UserId) :
              projects[p].local_version < MaxVersion
        /\ projects' = set_default_project(projects, UserId, id)
        /\ clean' = [p \in ProjectIds |->
                        clean[p] /\ p \notin ListedProjects(projects, UserId)]
    /\ UNCHANGED <<engineVars, users, providerVars, confirmed, accountVars>>
    /\ UNCHANGED twiceVars
    /\ UNCHANGED <<registry, lockVars, remote, sidecarVars>>

DefaultNext == StoreNext \/ SetDefaultProject

DefaultSpec == StoreInit /\ [][DefaultNext]_vars

DefaultProjects(ps, user_id) ==
    {p \in ListedProjects(ps, user_id) : ps[p].is_default}

\* C39: at most one project that list_projects returns for the user is the
\* default, and set_default_project for a project that list_projects
\* returns leaves that project as the only default.
C39_OneDefault ==
    /\ Cardinality(DefaultProjects(projects, UserId)) <= 1
    /\ \A p \in ListedProjects(projects, UserId) :
          DefaultProjects(set_default_project(projects, UserId, p), UserId) = {p}

\* the default has moved from a project, now deleted, to another one,
\* which a pull or a push has made Synced since
C39_Witness ==
    \E p, q \in ProjectIds :
       /\ DefaultProjects(projects, UserId) = {p}
       /\ Exists(q) /\ projects[q].is_deleted /\ projects[q].is_default
       /\ Synced(p)

----------------------------------------------------------------------------
(* The SidecarManager.  A child process is "none" before it is launched,   *)
(* "running", "exited" once it has ended and nobody has waited for it, and *)
(* "reaped" after wait or try_wait has collected it.  A call that blocks   *)
(* because the child never answers is not modelled.                        *)

syncVars == <<engineVars, storeVars, providerVars, histVars, accountVars,
              twiceVars, registry, lockVars, remote>>

NotStarted == Err("not-started")
AlreadyRunning == Err("already-running")

\* (mutant) spawn launches a child whatever the manager holds
SpawnRefusedNever(m) == FALSE

\* if self.process.is_some() { return Err(..) }
SpawnRefused(m) == m.process # None

\* what call can do to the manager, and what it returns: without both
\* handles the not-started error; with them the next request id is used
\* and the write, the read, the parse or the reply decide the result
call(m) ==
    IF m.stdin = None \/ m.stdout = None
    THEN {<<m, NotStarted>>}
    ELSE {<<[m EXCEPT !.request_id = @ + 1], r>> : r \in {Ok, Err("rpc")}}

\* SidecarManager::spawn
Spawn ==
    /\ IF SpawnRefused(manager)
       THEN /\ sret' = [op |-> "spawn", result |-> AlreadyRunning]
            /\ UNCHANGED <<manager, children>>
       ELSE \E launched \in BOOLEAN :
               IF launched
               THEN \E p \in Pids :
                       /\ children[p] = "none"
                       /\ \A q \in Pids : q < p => children[q] # "none"
                       /\ children' = [children EXCEPT ![p] = "running"]
                       /\ manager' = [manager EXCEPT !.stdin = Some(p),
                                                     !.stdout = Some(p),
                                                     !.process = Some(p)]
                       /\ sret' = [op |-> "spawn", result |-> Ok]
               ELSE /\ sret' = [op |-> "spawn", result |-> Err("launch")]
                    /\ UNCHANGED <<manager, children>>
    /\ UNCHANGED syncVars

\* SidecarManager::call and health_check, which is a call
Call ==
    /\ manager.request_id < MaxRequests
    /\ \E o \in call(manager) :
          /\ manager' = o[1]
          /\ sret' = [op |-> "call", result |-> o[2]]
    /\ UNCHANGED <<children, syncVars>>

\* SidecarManager::shutdown, which Drop calls too: with a process the
\* shutdown request, kill if it fails, and wait; then the handles go
Shutdown ==
    /\ manager.process # None => manager.request_id < MaxRequests
    /\ IF manager.process # None
       THEN \E o \in call([manager EXCEPT !.process = None]) :
               /\ manager' = [o[1] EXCEPT !.stdin = None, !.stdout = None]
               /\ children' = [children EXCEPT ![manager.process[2]] = "reaped"]
       ELSE /\ manager' = [manager EXCEPT !.stdin = None, !.stdout = None]
            /\ UNCHANGED children
    /\ sret' = [op |-> "shutdown", result |-> Ok]
    /\ UNCHANGED syncVars

\* SidecarManager::is_running: try_wait collects a child that has ended
IsRunning ==
    /\ IF manager.process = None
       THEN /\ sret' = [op |-> "is_running", result |-> FALSE]
            /\ UNCHANGED <<manager, children>>
       ELSE LET p == manager.process[2] IN
            \/ /\ children[p] = "exited"
               /\ children' = [children EXCEPT ![p] = "reaped"]
               /\ manager' = [manager EXCEPT !.process = None,
                                             !.stdin = None,
                                             !.stdout = None]
               /\ sret' = [op |-> "is_running", result |-> FALSE]
            \/ /\ children[p] = "running"
               /\ sret' = [op |-> "is_running", result |-> TRUE]
               /\ UNCHANGED <<manager, children>>
            \/ /\ sret' = [op |-> "is_running", result |-> FALSE]
               /\ UNCHANGED <<manager, children>>
    /\ UNCHANGED syncVars

\* the child ends on its own
ChildExits ==
    /\ \E p \in Pids :
          /\ children[p] = "running"
          /\ children' = [children EXCEPT ![p] = "exited"]
    /\ UNCHANGED <<manager, sret, syncVars>>

SidecarNext == Spawn \/ Call \/ Shutdown \/ IsRunning \/ ChildExits

SidecarSpec == Init /\ [][SidecarNext]_vars

\* every child that has been launched and not collected is the one the
\* manager holds, with both handles; after shutdown the process and both
\* handles are None; a call without the handles returns the not-started
\* error and leaves the manager as it is
OneChildHeld ==
    /\ \A p \in Pids :
          children[p] \in {"running", "exited"} => manager.process = Some(p)
    /\ manager.process # None =>
          /\ manager.stdin = manager.process
          /\ manager.stdout = manager.process
    /\ sret.op = "shutdown" =>
          manager.process = None /\ manager.stdin = None /\ manager.stdout = None
    /\ sret.op = "call" /\ (manager.stdin = None \/ manager.stdout = None) =>
          sret.result = NotStarted
    /\ call([manager EXCEPT !.stdin = None, !.stdout = None]) =
          {<<[manager EXCEPT !.stdin = None, !.stdout = None], NotStarted>>}

\* a spawn while a process is held returns an error and changes neither
\* the manager nor the children
SpawnWhileHeld ==
    manager.process # None /\ sret' # sret /\ sret'.op = "spawn" =>
       /\ ~is_ok(sret'.result)
       /\ manager' = manager
       /\ children' = children

\* C40: the manager holds at most one child: a child launched and not
\* collected is the held one, a spawn while a process is held fails and
\* changes nothing, and after shutdown process, stdin and stdout are None
\* and call returns the not-started error.
C40_OneChild == []OneChildHeld /\ [][SpawnWhileHeld]_vars

\* every child has been launched and collected, requests have been sent,
\* and the last call, made without a process, has returned the not-started
\* error
C40_Witness ==
    /\ sret = [op |-> "call", result |-> NotStarted]
    /\ manager.process = None /\ manager.request_id >= 1
    /\ \A p \in Pids : children[p] = "reaped"

====
